---- MODULE Spec2Model ----
(***************************************************************************)
(* Model of the clipforge backend engine (src-tauri/src):                  *)
(*   - engine/builder.rs   FfmpegCommand, the zone-ordered argument builder *)
(*   - engine/progress.rs  ProgressParser, the throttled progress decoder   *)
(*   - engine/queue.rs     TaskQueue, the registry of running children      *)
(*   - engine/process.rs   run_ffmpeg / run_ffmpeg_quiet                    *)
(*   - commands/*.rs       the orchestrators that drive the above           *)
(* Four specifications share the module: SpecBuilder (the builder),         *)
(* SpecParser (the parser under a clock), SpecCommands (the build_*_command *)
(* functions) and Spec (registry, runner and orchestrators under every      *)
(* interleaving).                                                           *)
(***************************************************************************)
EXTENDS Integers, Sequences, FiniteSets, TLC

VARIABLES
    \* ---- builder (engine/builder.rs) ----
    cmd,        \* the FfmpegCommand under construction
    calls,      \* the builder calls made so far, in call order
    built,      \* <<>> before build(), <<tokens>> after it
    \* ---- parser (engine/progress.rs) ----
    clock,      \* the monotonic clock, in ms (Instant::now())
    parser,     \* the ProgressParser's fields
    parsed,     \* what the last parse_line call was given and returned, the key=value
                \* pairs given since the last sentinel, the keys a throttled sentinel
                \* discarded
    emits,      \* times at which parse_line returned a snapshot, newest first
    \* ---- registry (engine/queue.rs TASK_QUEUE) ----
    running,    \* TaskQueue.running: task id -> child handle
    cancelled,  \* TaskQueue.cancelled: set of task ids
    kills,      \* per process, the kill signals sent to it
    call,       \* the cancel_task command just served: its id and result
    \* ---- one orchestrator call per job (commands/*.rs, engine/process.rs) ----
    kind,       \* which orchestrator serves the job
    pc,         \* the orchestrator's position
    proc,       \* the job's registered child process
    chan,       \* rx: CommandEvents sent by the child, not yet received
    events,     \* what was pushed to the job's on_progress channel
    local,      \* run loop locals: is_cancelled, exit_code; trim_multi_merge's segment
                \* index, temp_files, the ffmpeg runs it made and the concat list written;
                \* process_subtitle's mode and what its probes reported
    task_result,\* what run_ffmpeg returned (its TaskResult's status, or Err)
    ret,        \* what the orchestrator returned
    cleanups,   \* per job, the calls of TaskQueue::cleanup
    temp,       \* per job, its temporary files now on disk
    nonzero,    \* per job, whether one of its processes exited with a nonzero code
    \* ---- command construction (engine/builder.rs build_*_command) ----
    calc        \* the last command built: the function, its input, what it computed

builderVars == <<cmd, calls, built>>
parserVars == <<clock, parser, parsed, emits>>
queueVars == <<running, cancelled, kills, call>>
jobVars == <<kind, pc, proc, chan, events, local, task_result, ret, cleanups, temp, nonzero>>
runVars == <<queueVars, jobVars>>
calcVars == <<calc>>
vars == <<builderVars, parserVars, runVars, calcVars>>

None == <<>>
Some(x) == <<x>>
IsSome(o) == o # <<>>
Unwrap(o) == o[1]

(***************************************************************************)
(* engine/builder.rs : FfmpegCommand                                       *)
(***************************************************************************)

\* Bound on the number of builder calls before build().
MaxCalls == 4

PreArgTokens == {"-nostats"}
InputPaths == {"in1", "in2"}
PostArgTokens == {"-an"}
VideoFilters == {"scale", "fps"}
AudioFilters == {"volume"}
ComplexGraphs == {"[0]split"}
OutputPaths == {"", "out.mp4"}

\* FfmpegCommand::new
NewCommand ==
    [ pre_args |-> <<"-y", "-hide_banner">>,
      inputs |-> <<>>,
      post_args |-> <<>>,
      video_filters |-> <<>>,
      audio_filters |-> <<>>,
      complex_filter |-> None,
      output |-> "" ]

\* Vec<String>::join(",")
RECURSIVE Join(_)
Join(parts) ==
    IF Len(parts) = 0 THEN ""
    ELSE IF Len(parts) = 1 THEN parts[1]
    ELSE parts[1] \o "," \o Join(Tail(parts))

\* for input in &self.inputs { push "-i"; push input }
RECURSIVE InputArgs(_)
InputArgs(inputs) ==
    IF inputs = <<>> THEN <<>>
    ELSE <<"-i", Head(inputs)>> \o InputArgs(Tail(inputs))

\* step 4 of build(): -filter_complex wins over -vf / -af
FilterArgs(c) ==
    IF IsSome(c.complex_filter)
    THEN <<"-filter_complex", Unwrap(c.complex_filter)>>
    ELSE (IF c.video_filters # <<>> THEN <<"-vf", Join(c.video_filters)>> ELSE <<>>)
         \o (IF c.audio_filters # <<>> THEN <<"-af", Join(c.audio_filters)>> ELSE <<>>)

\* step 5 of build(): the output path, unless it is empty
OutputArgs(c) == IF c.output # "" THEN <<c.output>> ELSE <<>>

BuildTokens_PostBeforeInputs(c) ==
    c.pre_args \o c.post_args \o InputArgs(c.inputs) \o FilterArgs(c) \o OutputArgs(c)

\* FfmpegCommand::build
BuildTokens(c) ==
    c.pre_args \o InputArgs(c.inputs) \o c.post_args \o FilterArgs(c) \o OutputArgs(c)

CanCall == built = None /\ Len(calls) < MaxCalls

Called(m, a) == calls' = Append(calls, [m |-> m, a |-> a])

\* FfmpegCommand::input
input ==
    \E path \in InputPaths :
        /\ CanCall
        /\ cmd' = [cmd EXCEPT !.inputs = Append(@, path)]
        /\ Called("input", <<path>>)
        /\ UNCHANGED <<built, parserVars, runVars, calcVars>>

\* FfmpegCommand::pre_arg
pre_arg ==
    \E a \in PreArgTokens :
        /\ CanCall
        /\ cmd' = [cmd EXCEPT !.pre_args = Append(@, a)]
        /\ Called("pre_arg", <<a>>)
        /\ UNCHANGED <<built, parserVars, runVars, calcVars>>

\* FfmpegCommand::pre_args_pair
pre_args_pair ==
    \E kv \in {<<"-ss", "5">>} :
        /\ CanCall
        /\ cmd' = [cmd EXCEPT !.pre_args = Append(Append(@, kv[1]), kv[2])]
        /\ Called("pre_args_pair", kv)
        /\ UNCHANGED <<built, parserVars, runVars, calcVars>>

\* FfmpegCommand::arg
arg ==
    \E a \in PostArgTokens :
        /\ CanCall
        /\ cmd' = [cmd EXCEPT !.post_args = Append(@, a)]
        /\ Called("arg", <<a>>)
        /\ UNCHANGED <<built, parserVars, runVars, calcVars>>

\* FfmpegCommand::args_pair (video_codec, audio_codec, crf, preset, ... go through it)
args_pair ==
    \E kv \in {<<"-c:v", "copy">>} :
        /\ CanCall
        /\ cmd' = [cmd EXCEPT !.post_args = Append(Append(@, kv[1]), kv[2])]
        /\ Called("args_pair", kv)
        /\ UNCHANGED <<built, parserVars, runVars, calcVars>>

\* FfmpegCommand::video_filter
video_filter ==
    \E f \in VideoFilters :
        /\ CanCall
        /\ cmd' = [cmd EXCEPT !.video_filters = Append(@, f)]
        /\ Called("video_filter", <<f>>)
        /\ UNCHANGED <<built, parserVars, runVars, calcVars>>

\* FfmpegCommand::audio_filter
audio_filter ==
    \E f \in AudioFilters :
        /\ CanCall
        /\ cmd' = [cmd EXCEPT !.audio_filters = Append(@, f)]
        /\ Called("audio_filter", <<f>>)
        /\ UNCHANGED <<built, parserVars, runVars, calcVars>>

\* FfmpegCommand::complex_filter
complex_filter ==
    \E g \in ComplexGraphs :
        /\ CanCall
        /\ cmd' = [cmd EXCEPT !.complex_filter = Some(g)]
        /\ Called("complex_filter", <<g>>)
        /\ UNCHANGED <<built, parserVars, runVars, calcVars>>

\* FfmpegCommand::output
output ==
    \E path \in OutputPaths :
        /\ CanCall
        /\ cmd' = [cmd EXCEPT !.output = path]
        /\ Called("output", <<path>>)
        /\ UNCHANGED <<built, parserVars, runVars, calcVars>>

\* FfmpegCommand::build (consumes the builder)
build ==
    /\ built = None
    /\ built' = Some(BuildTokens(cmd))
    /\ UNCHANGED <<cmd, calls, parserVars, runVars, calcVars>>

InitBuilderVars ==
    /\ cmd = NewCommand
    /\ calls = <<>>
    /\ built = None

NextBuilder ==
    \/ input
    \/ pre_arg
    \/ pre_args_pair
    \/ arg
    \/ args_pair
    \/ video_filter
    \/ audio_filter
    \/ complex_filter
    \/ output
    \/ build

(***************************************************************************)
(* engine/progress.rs : ProgressParser                                     *)
(* A line is the sequence of its characters, so that trimming, the split   *)
(* at '=' and the numeric parses are computed as the code computes them.   *)
(* f64 values are exact rationals [n, d] in lowest terms (d > 0); the      *)
(* inputs are chosen so that no value needs more than 31 bits.             *)
(***************************************************************************)

\* const MIN_EMIT_INTERVAL_MS: u128 = 200
MIN_EMIT_INTERVAL_MS == 200

\* Bounds: lines given to one parser, and the clock's range (ms).
MaxLines == 4
MaxClock == 600

K_progress == <<"p","r","o","g","r","e","s","s">>
K_out_time_us == <<"o","u","t","_","t","i","m","e","_","u","s">>
K_speed == <<"s","p","e","e","d">>
K_total_size == <<"t","o","t","a","l","_","s","i","z","e">>
K_frame == <<"f","r","a","m","e">>
K_fps == <<"f","p","s">>
V_continue == <<"c","o","n","t","i","n","u","e">>
V_end == <<"e","n","d">>

KV(k, v) == k \o <<"=">> \o v

\* The lines ffmpeg's -progress output may hold, and malformed ones.
Lines ==
    { KV(K_out_time_us, <<"5","0","0","0","0","0","0">>),
      KV(K_out_time_us, <<"3","0","0","0","0","0","0","0">>),
      KV(K_out_time_us, <<"-","1","0","0","0","0","0","0">>),
      KV(K_out_time_us, <<"N","/","A">>),
      KV(K_speed, <<"2",".","0","x">>),
      KV(K_frame, <<"1","5","0">>),
      KV(K_progress, V_continue),
      KV(K_progress, V_end),
      <<" ">> \o K_progress \o <<" ","="," ">> \o V_end \o <<" ">>,
      <<>>,
      <<"f","r","a","m","e">> }

\* ProgressParser::new is given total_duration in seconds.
TotalDurations == {0, 20}

Digits == {"0","1","2","3","4","5","6","7","8","9"}
DigitVal(c) ==
    CASE c = "0" -> 0 [] c = "1" -> 1 [] c = "2" -> 2 [] c = "3" -> 3 [] c = "4" -> 4
      [] c = "5" -> 5 [] c = "6" -> 6 [] c = "7" -> 7 [] c = "8" -> 8 [] c = "9" -> 9

IsSpace(c) == c \in {" ", "\t"}

\* str::trim_start / trim_end / trim
RECURSIVE TrimStart(_)
TrimStart(s) == IF s # <<>> /\ IsSpace(Head(s)) THEN TrimStart(Tail(s)) ELSE s
RECURSIVE TrimEnd(_)
TrimEnd(s) ==
    IF s # <<>> /\ IsSpace(s[Len(s)]) THEN TrimEnd(SubSeq(s, 1, Len(s) - 1)) ELSE s
Trim(s) == TrimEnd(TrimStart(s))

\* str::find(ch): the first index of ch, 0 when absent
Find(s, ch) ==
    IF \E i \in 1..Len(s) : s[i] = ch
    THEN CHOOSE i \in 1..Len(s) : s[i] = ch /\ \A j \in 1..(i - 1) : s[j] # ch
    ELSE 0

\* str::trim_end_matches('x')
RECURSIVE TrimEndMatches(_, _)
TrimEndMatches(s, ch) ==
    IF s # <<>> /\ s[Len(s)] = ch THEN TrimEndMatches(SubSeq(s, 1, Len(s) - 1), ch) ELSE s

AllDigits(s) == \A i \in 1..Len(s) : s[i] \in Digits

RECURSIVE DigitsValue(_)
DigitsValue(s) ==
    IF s = <<>> THEN 0 ELSE 10 * DigitsValue(SubSeq(s, 1, Len(s) - 1)) + DigitVal(s[Len(s)])

RECURSIVE Pow10(_)
Pow10(k) == IF k = 0 THEN 1 ELSE 10 * Pow10(k - 1)

\* str::parse::<i64>: an optional sign, then one or more digits
ParseI64(s) ==
    LET body == IF s # <<>> /\ Head(s) \in {"+", "-"} THEN Tail(s) ELSE s
    IN  IF body = <<>> \/ ~AllDigits(body) THEN None
        ELSE IF s[1] = "-" THEN Some(0 - DigitsValue(body))
        ELSE Some(DigitsValue(body))

\* str::parse::<u64>: an optional '+', then one or more digits
ParseU64(s) ==
    LET body == IF s # <<>> /\ Head(s) = "+" THEN Tail(s) ELSE s
    IN  IF body = <<>> \/ ~AllDigits(body) THEN None ELSE Some(DigitsValue(body))

Abs(x) == IF x < 0 THEN 0 - x ELSE x
RECURSIVE GCD(_, _)
GCD(a, b) == IF b = 0 THEN a ELSE GCD(b, a % b)

\* the rational n/d (d # 0) in lowest terms with a positive denominator
Rat(n, d) ==
    LET g == GCD(Abs(n), Abs(d))
        sgn == IF d < 0 THEN 0 - 1 ELSE 1
    IN  [n |-> sgn * (n \div g), d |-> sgn * (d \div g)]
RatZero == [n |-> 0, d |-> 1]
RatLess(a, b) == a.n * b.d < b.n * a.d
RatLeq(a, b) == a.n * b.d <= b.n * a.d
RatMin(a, b) == IF RatLess(b, a) THEN b ELSE a
RatMax(a, b) == IF RatLess(a, b) THEN b ELSE a
\* a * k and a / b (b # 0), reducing before multiplying
RatScale(a, k) == LET g == GCD(Abs(a.d), Abs(k)) IN Rat(a.n * (k \div g), a.d \div g)
RatDiv(a, b) ==
    LET x == Rat(a.n, b.n)
        y == Rat(b.d, a.d)
    IN  Rat(x.n * y.n, x.d * y.d)

\* str::parse::<f64> on decimal notation: [sign] digits [. digits]
ParseF64(s) ==
    LET neg == s # <<>> /\ Head(s) = "-"
        body == IF s # <<>> /\ Head(s) \in {"+", "-"} THEN Tail(s) ELSE s
        dot == Find(body, ".")
        int == IF dot = 0 THEN body ELSE SubSeq(body, 1, dot - 1)
        frac == IF dot = 0 THEN <<>> ELSE SubSeq(body, dot + 1, Len(body))
    IN  IF (int = <<>> /\ frac = <<>>) \/ ~AllDigits(int) \/ ~AllDigits(frac) THEN None
        ELSE LET mag == Rat(DigitsValue(int \o frac), Pow10(Len(frac)))
             IN  Some(IF neg THEN [mag EXCEPT !.n = 0 - @] ELSE mag)

\* Option::unwrap_or
UnwrapOr(o, dflt) == IF IsSome(o) THEN Unwrap(o) ELSE dflt

\* HashMap::get
MapGet(m, key) == IF key \in DOMAIN m THEN Some(m[key]) ELSE None

\* HashMap::insert
MapInsert(m, key, value) ==
    [k \in DOMAIN m \cup {key} |-> IF k = key THEN value ELSE m[k]]
EmptyMap == [k \in {} |-> <<>>]

\* utils/time.rs microseconds_to_seconds
microseconds_to_seconds(us) == Rat(us, 1000000)

ParseSpeed(v) == ParseF64(TrimEndMatches(v, "x"))

\* current_values.get(key).and_then(|v| v.parse::<T>().ok())
GetI64(m, key) == LET g == MapGet(m, key) IN IF IsSome(g) THEN ParseI64(Unwrap(g)) ELSE None
GetU64(m, key) == LET g == MapGet(m, key) IN IF IsSome(g) THEN ParseU64(Unwrap(g)) ELSE None
GetF64(m, key) == LET g == MapGet(m, key) IN IF IsSome(g) THEN ParseF64(Unwrap(g)) ELSE None
GetSpeed(m, key) == LET g == MapGet(m, key) IN IF IsSome(g) THEN ParseSpeed(Unwrap(g)) ELSE None

\* faulty variant: the percentage is not capped at 100
Percent_Uncapped(out_time_us, total_duration_us) ==
    IF total_duration_us > 0
    THEN RatScale(Rat(out_time_us, total_duration_us), 100)
    ELSE RatZero

\* percent: `(out / total * 100.0).min(100.0)` when total > 0, else 0.0
Percent(out_time_us, total_duration_us) ==
    IF total_duration_us > 0
    THEN RatMin(RatScale(Rat(out_time_us, total_duration_us), 100), [n |-> 100, d |-> 1])
    ELSE RatZero

\* ProgressParser::build_progress_update
build_progress_update(p) ==
    LET out_time_us == UnwrapOr(GetI64(p.current_values, K_out_time_us), 0)
        percent == Percent(out_time_us, p.total_duration_us)
        current_time == microseconds_to_seconds(out_time_us)
        speed == UnwrapOr(GetSpeed(p.current_values, K_speed), RatZero)
        total_duration_secs == microseconds_to_seconds(p.total_duration_us)
        remaining_time == Rat(p.total_duration_us - out_time_us, 1000000)
        eta == IF RatLess(RatZero, speed)
               THEN RatMax(RatDiv(remaining_time, speed), RatZero)
               ELSE RatZero
        output_size == UnwrapOr(GetU64(p.current_values, K_total_size), 0)
        frame == UnwrapOr(GetU64(p.current_values, K_frame), 0)
        fps == UnwrapOr(GetF64(p.current_values, K_fps), RatZero)
    IN  Some([ task_id |-> p.task_id,
               percent |-> percent,
               speed |-> speed,
               current_time |-> current_time,
               eta |-> eta,
               output_size |-> output_size,
               frame |-> frame,
               fps |-> fps ])

\* faulty variant: the end sentinel is throttled like any other
ForcedEmit_Never(value) == FALSE

\* `if value == "end" { return result; }`
ForcedEmit(value) == value = V_end

\* `self.last_emit_time.elapsed().as_millis() >= MIN_EMIT_INTERVAL_MS`
ThrottlePassed(p, now) == now - p.last_emit_time >= MIN_EMIT_INTERVAL_MS

\* faulty variant: a throttled sentinel leaves the accumulator as it is
parse_line_KeepOnThrottle(p, line, now) ==
    LET trimmed == Trim(line)
        eq_pos == Find(trimmed, "=")
        key == Trim(SubSeq(trimmed, 1, eq_pos - 1))
        value == Trim(SubSeq(trimmed, eq_pos + 1, Len(trimmed)))
        result == build_progress_update(p)
        cleared == [p EXCEPT !.current_values = EmptyMap]
    IN  IF trimmed = <<>> THEN [p |-> p, ret |-> None]
        ELSE IF eq_pos = 0 THEN [p |-> p, ret |-> None]
        ELSE IF key = K_progress
        THEN IF ThrottlePassed(p, now)
             THEN [p |-> [cleared EXCEPT !.last_emit_time = now], ret |-> result]
             ELSE IF ForcedEmit(value)
             THEN [p |-> cleared, ret |-> result]
             ELSE [p |-> p, ret |-> None]
        ELSE [p |-> [p EXCEPT !.current_values = MapInsert(@, key, value)], ret |-> None]

\* ProgressParser::parse_line at clock reading `now`: the parser after the call
\* and the returned Option<ProgressUpdate>
parse_line(p, line, now) ==
    LET trimmed == Trim(line)
        eq_pos == Find(trimmed, "=")
        key == Trim(SubSeq(trimmed, 1, eq_pos - 1))
        value == Trim(SubSeq(trimmed, eq_pos + 1, Len(trimmed)))
        result == build_progress_update(p)
        cleared == [p EXCEPT !.current_values = EmptyMap]
    IN  IF trimmed = <<>> THEN [p |-> p, ret |-> None]
        ELSE IF eq_pos = 0 THEN [p |-> p, ret |-> None]
        ELSE IF key = K_progress
        THEN IF ThrottlePassed(p, now)
             THEN [p |-> [cleared EXCEPT !.last_emit_time = now], ret |-> result]
             ELSE IF ForcedEmit(value)
             THEN [p |-> cleared, ret |-> result]
             ELSE [p |-> cleared, ret |-> None]
        ELSE [p |-> [p EXCEPT !.current_values = MapInsert(@, key, value)], ret |-> None]

\* ProgressParser::new at clock reading `now`; Instant::checked_sub fails when the
\* clock has not yet run for the interval
ProgressParserNew(total_duration, task_id, now) ==
    [ total_duration_us |-> total_duration * 1000000,
      task_id |-> task_id,
      last_emit_time |-> IF now >= MIN_EMIT_INTERVAL_MS THEN now - MIN_EMIT_INTERVAL_MS ELSE now,
      current_values |-> EmptyMap ]

\* the sentinel value of a line, <<>> when the line is not a sentinel
SentinelOf(line) ==
    LET trimmed == Trim(line)
        eq_pos == Find(trimmed, "=")
    IN  IF eq_pos > 0 /\ Trim(SubSeq(trimmed, 1, eq_pos - 1)) = K_progress
        THEN Some(Trim(SubSeq(trimmed, eq_pos + 1, Len(trimmed))))
        ELSE None

\* observation: the key=value pairs of the lines given since the last sentinel,
\* after one more line
BurstAfter(burst, line) ==
    LET l == Trim(line)
        eq == Find(l, "=")
    IN  IF IsSome(SentinelOf(line)) THEN EmptyMap
        ELSE IF eq = 0 THEN burst
        ELSE MapInsert(burst, Trim(SubSeq(l, 1, eq - 1)), Trim(SubSeq(l, eq + 1, Len(l))))

\* One call parser.parse_line(line), as run_ffmpeg makes for each stdout line.
ParseLine ==
    \E line \in Lines :
        LET r == parse_line(parser, line, clock)
        IN  /\ parsed.n < MaxLines
            /\ parser' = r.p
            /\ parsed' = [n |-> parsed.n + 1, line |-> line, ret |-> r.ret, at |-> clock,
                          burst |-> BurstAfter(parsed.burst, line),
                          dropped |-> IF IsSome(SentinelOf(line)) /\ ~IsSome(r.ret)
                                      THEN parsed.dropped \cup DOMAIN parser.current_values
                                      ELSE parsed.dropped]
            /\ emits' = IF ~IsSome(r.ret) THEN emits
                        ELSE IF emits = <<>> THEN <<clock>> ELSE <<clock, emits[1]>>
            /\ UNCHANGED <<clock, builderVars, runVars, calcVars>>

\* Time passes between two lines.
Tick ==
    /\ clock + 100 <= MaxClock
    /\ clock' = clock + 100
    /\ UNCHANGED <<parser, parsed, emits, builderVars, runVars, calcVars>>

\* The parser is created once the clock has run for the interval (an application
\* started within 200 ms of the clock's origin is not considered).
InitParserVars ==
    /\ clock = MIN_EMIT_INTERVAL_MS
    /\ parser \in {ProgressParserNew(t, "job", clock) : t \in TotalDurations}
    /\ parsed = [n |-> 0, line |-> <<>>, ret |-> None, at |-> clock,
                burst |-> EmptyMap, dropped |-> {}]
    /\ emits = <<>>

IdleParserVars ==
    /\ clock = 0
    /\ parser = ProgressParserNew(0, "job", 0)
    /\ parsed = [n |-> 0, line |-> <<>>, ret |-> None, at |-> 0,
                burst |-> EmptyMap, dropped |-> {}]
    /\ emits = <<>>

NextParser ==
    \/ ParseLine
    \/ Tick


(***************************************************************************)
(* engine/builder.rs : the build_*_command functions                       *)
(* The numeric part of each function is computed on exact rationals.       *)
(***************************************************************************)

\* Bound: the number of input clips of a merge.
MaxClips == 3

RatOf(k) == [n |-> k, d |-> 1]
RatAdd(a, b) == Rat(a.n * b.d + b.n * a.d, a.d * b.d)
RatSub(a, b) == Rat(a.n * b.d - b.n * a.d, a.d * b.d)
RatMul(a, b) == Rat(a.n * b.n, a.d * b.d)

\* durations of the input clips (seconds) and transition durations
ClipDurations == {RatOf(0), RatOf(6), RatOf(8), RatOf(10)}
TransitionDurations == {RatOf(0), RatOf(1), Rat(3, 2), RatOf(7)}

\* faulty variant: the clip of the transition itself is left out of the sum
RECURSIVE Cumulative_Exclusive(_, _)
Cumulative_Exclusive(durations, k) ==
    IF k <= 1 \/ durations = <<>> THEN RatZero
    ELSE RatAdd(Head(durations), Cumulative_Exclusive(Tail(durations), k - 1))

\* durations.iter().take(k).sum()
RECURSIVE Cumulative(_, _)
Cumulative(durations, k) ==
    IF k = 0 \/ durations = <<>> THEN RatZero
    ELSE RatAdd(Head(durations), Cumulative(Tail(durations), k - 1))

\* faulty variant: the offset is not clamped at 0
Offsets_NoClamp(n, durations, trans_dur) ==
    [k \in 1..(IF n > 0 THEN n - 1 ELSE 0) |->
        RatSub(Cumulative(durations, k), RatMul(RatOf(k), trans_dur))]

\* the offsets loop: for i in 0..n.saturating_sub(1), with k = i + 1
Offsets(n, durations, trans_dur) ==
    [k \in 1..(IF n > 0 THEN n - 1 ELSE 0) |->
        RatMax(RatSub(Cumulative(durations, k), RatMul(RatOf(k), trans_dur)), RatZero)]

\* offsets.get(i).copied().unwrap_or(0.0), i counted from 0
OffsetAt(offsets, i) == IF i + 1 \in DOMAIN offsets THEN offsets[i + 1] ELSE RatZero

\* the xfade / acrossfade stages pushed to filter_parts: the first joins v0 and
\* v1, stage i - 1 joins the previous result with clip i
XfadeStages(n, offsets, trans_dur) ==
    [k \in 1..(IF n >= 2 THEN n - 1 ELSE 0) |->
        IF k = 1
        THEN [ a |-> <<"v", 0>>, b |-> <<"v", 1>>, duration |-> trans_dur,
               offset |-> OffsetAt(offsets, 0), out |-> <<"vt", 0>> ]
        ELSE [ a |-> <<"vt", k - 2>>, b |-> <<"v", k>>, duration |-> trans_dur,
               offset |-> OffsetAt(offsets, k - 1), out |-> <<"vt", k - 1>> ]]

\* build_merge_command with a transition, for n input paths and their durations
MergeCommand ==
    \E n \in 0..MaxClips :
        \E durations \in [1..n -> ClipDurations], trans_dur \in TransitionDurations :
            /\ calc' = [ fn |-> "build_merge_command",
                         in |-> [n |-> n, durations |-> durations, trans_dur |-> trans_dur],
                         out |-> XfadeStages(n, Offsets(n, durations, trans_dur), trans_dur) ]
            /\ UNCHANGED <<builderVars, parserVars, runVars>>

\* ---- build_compress_command ----
\* An f64 is a rational, or one of the three values a division by zero gives:
\* a record with d = 0 and n = 1 (inf), -1 (-inf) or 0 (NaN). The inputs are
\* chosen so that the f64 operations on them are exact or round on the same side
\* of every integer the code truncates at.
Inf == [n |-> 1, d |-> 0]
NegInf == [n |-> 0 - 1, d |-> 0]
NaN == [n |-> 0, d |-> 0]
IsFinite(x) == x.d # 0

\* f64 `/`, `-` and f64::max on finite operands b
F64Div(a, b) ==
    IF b.n # 0 THEN RatDiv(a, b)
    ELSE IF a.n > 0 THEN Inf ELSE IF a.n < 0 THEN NegInf ELSE NaN
F64Sub(a, b) == IF IsFinite(a) THEN RatSub(a, b) ELSE a
F64Max(a, b) ==
    IF a = NaN \/ a = NegInf THEN b ELSE IF a = Inf THEN Inf ELSE RatMax(a, b)

\* A u64 is an integer below 2^31, or u64::MAX (what the saturating cast of inf
\* gives), or the wrapped low 64 bits of a product that exceeded u64::MAX.
U64(v) == [kind |-> "int", v |-> v]
U64_MAX == [kind |-> "max", v |-> 0]
U64_WRAPPED == [kind |-> "wrapped", v |-> 0]

\* `x as u64`: truncation toward zero, saturating, NaN to 0
F64AsU64(x) ==
    IF x = Inf THEN U64_MAX
    ELSE IF x = NaN \/ x = NegInf \/ x.n < 0 THEN U64(0)
    ELSE U64(x.n \div x.d)

\* u64 `*` and `/` by a constant k >= 2; the product of u64::MAX overflows
MulOverflows(a, k) == a.kind # "int"
U64Mul(a, k) == IF a.kind = "int" THEN U64(a.v * k) ELSE U64_WRAPPED
U64Div(a, k) == IF a.kind = "int" THEN U64(a.v \div k) ELSE a
U64AtLeast(a, k) == IF a.kind = "int" /\ a.v < k THEN U64(k) ELSE a

\* Bound: the largest quality level given (the documented range is 1-10).
MaxLevel == 12

\* params.target_size_mb, input_duration (get_media_stats gives 0.0 when the probe
\* reports no duration), params.compress_ratio, input_bitrate, params.quality_level
TargetSizes == {None, Some(RatOf(0)), Some(RatOf(1))}
InputDurations == {RatOf(0), Rat(1, 2), RatOf(10), RatOf(100), RatOf(4000)}
CompressRatios ==
    {None, Some(Rat(0 - 1, 2)), Some(RatOf(0)), Some(Rat(1, 16)), Some(Rat(1, 4)),
     Some(Rat(1, 2)), Some(Rat(3, 4)), Some(RatOf(1)), Some(Rat(3, 2))}
InputBitrates == {0, 2000000}
QualityLevels == {None} \cup {Some(l) : l \in 0..MaxLevel}

\* u32::clamp / f64::clamp
ClampInt(x, lo, hi) == IF x < lo THEN lo ELSE IF x > hi THEN hi ELSE x
ClampRat(x, lo, hi) == IF RatLess(x, lo) THEN lo ELSE IF RatLess(hi, x) THEN hi ELSE x

\* faulty variant: the level is not clamped from above
quality_level_to_crf_NoUpperClamp(level) ==
    34 - (((IF level < 1 THEN 1 ELSE level) - 1) * 2)

\* fn quality_level_to_crf
quality_level_to_crf(level) == 34 - ((ClampInt(level, 1, 10) - 1) * 2)

\* fn quality_level_to_vt_q
quality_level_to_vt_q(level) == 30 + (((ClampInt(level, 1, 10) - 1) * 55) \div 9)

\* fn ratio_to_crf
ratio_to_crf(ratio) ==
    LET clamped == ClampRat(ratio, Rat(1, 10), RatOf(1))
        crf == RatAdd(RatOf(16), RatMul(RatSub(RatOf(1), clamped), RatOf(20)))
    IN  F64AsU64(crf).v

\* `let video_kbps = (target_mb * 1024.0 * 8.0 / input_duration) - audio_kbps;`
\* `let video_kbps = video_kbps.max(100.0) as u64;`
VideoKbps(target_mb, input_duration) ==
    F64AsU64(F64Max(F64Sub(F64Div(RatMul(RatMul(target_mb, RatOf(1024)), RatOf(8)),
                                  input_duration),
                           RatOf(128)),
                    RatOf(100)))

NoCompressOut ==
    [ panicked |-> FALSE, video_bitrate |-> None, maxrate |-> None, bufsize |-> None,
      crf |-> None, q |-> None ]

\* build_compress_command, CompressMode::BySize. `video_kbps * 15` and
\* `video_kbps * 2` overflow for u64::MAX: the function panics when the build has
\* overflow checks and wraps when it has not.
CompressBySize ==
    \E hw \in BOOLEAN, checks \in BOOLEAN, target \in TargetSizes, dur \in InputDurations :
        LET video_kbps == VideoKbps(UnwrapOr(target, RatOf(50)), dur)
            out == IF hw
                   THEN [NoCompressOut EXCEPT !.video_bitrate = Some(video_kbps)]
                   ELSE IF checks /\ MulOverflows(video_kbps, 15)
                   THEN [NoCompressOut EXCEPT !.panicked = TRUE]
                   ELSE [NoCompressOut EXCEPT
                            !.video_bitrate = Some(video_kbps),
                            !.maxrate = Some(U64Div(U64Mul(video_kbps, 15), 10)),
                            !.bufsize = Some(U64Mul(video_kbps, 2))]
        IN  /\ calc' = [ fn |-> "build_compress_command",
                         in |-> [ mode |-> "BySize", hardware_accel |-> hw,
                                  overflow_checks |-> checks, target_size_mb |-> target,
                                  input_duration |-> dur ],
                         out |-> out ]
            /\ UNCHANGED <<builderVars, parserVars, runVars>>

\* build_compress_command, CompressMode::ByRatio
CompressByRatio ==
    \E hw \in BOOLEAN, r \in CompressRatios, input_bitrate \in InputBitrates :
        LET ratio == UnwrapOr(r, Rat(1, 2))
            target_bps == F64AsU64(RatMul(RatOf(input_bitrate), ratio))
            target_kbps == U64Div(target_bps, 1000)
            out == IF hw
                   THEN [NoCompressOut EXCEPT !.video_bitrate = Some(U64AtLeast(target_kbps, 100))]
                   ELSE [NoCompressOut EXCEPT !.crf = Some(ratio_to_crf(ratio))]
        IN  /\ calc' = [ fn |-> "build_compress_command",
                         in |-> [ mode |-> "ByRatio", hardware_accel |-> hw,
                                  compress_ratio |-> r, ratio |-> ratio,
                                  input_bitrate |-> input_bitrate ],
                         out |-> out ]
            /\ UNCHANGED <<builderVars, parserVars, runVars>>

\* build_compress_command, CompressMode::ByQuality
CompressByQuality ==
    \E hw \in BOOLEAN, l \in QualityLevels :
        LET level == UnwrapOr(l, 5)
            out == IF hw
                   THEN [NoCompressOut EXCEPT !.q = Some(quality_level_to_vt_q(level))]
                   ELSE [NoCompressOut EXCEPT !.crf = Some(quality_level_to_crf(level))]
        IN  /\ calc' = [ fn |-> "build_compress_command",
                         in |-> [ mode |-> "ByQuality", hardware_accel |-> hw,
                                  quality_level |-> l, level |-> level ],
                         out |-> out ]
            /\ UNCHANGED <<builderVars, parserVars, runVars>>

InitCalcVars == calc = [fn |-> "none", in |-> <<>>, out |-> <<>>]

NextCommands ==
    \/ MergeCommand
    \/ CompressBySize
    \/ CompressByRatio
    \/ CompressByQuality

(***************************************************************************)
(* engine/process.rs : extract_error_message                               *)
(* The stderr buffer is the sequence of its lines (str::lines).            *)
(***************************************************************************)

\* `stderr.lines().rev().take(20)`
ERROR_SCAN_LINES == 20

\* Bound: the lines of a stderr buffer.
MaxStderrLines == 21

UpperLetters == <<"A","B","C","D","E","F","G","H","I","J","K","L","M",
                  "N","O","P","Q","R","S","T","U","V","W","X","Y","Z">>
LowerLetters == <<"a","b","c","d","e","f","g","h","i","j","k","l","m",
                  "n","o","p","q","r","s","t","u","v","w","x","y","z">>

\* str::to_lowercase
ToLowercase(s) ==
    [i \in 1..Len(s) |->
        IF \E k \in 1..26 : UpperLetters[k] = s[i]
        THEN LowerLetters[CHOOSE k \in 1..26 : UpperLetters[k] = s[i]]
        ELSE s[i]]

\* str::contains(pattern)
Contains(s, pat) ==
    \E i \in 1..(Len(s) - Len(pat) + 1) : SubSeq(s, i, i + Len(pat) - 1) = pat

ErrorKeywords ==
    { <<"e","r","r","o","r">>,
      <<"i","n","v","a","l","i","d">>,
      <<"n","o"," ","s","u","c","h">>,
      <<"p","e","r","m","i","s","s","i","o","n"," ","d","e","n","i","e","d">>,
      <<"n","o","t"," ","f","o","u","n","d">> }

\* `lower.contains("error") || lower.contains("invalid") || ...`
HasErrorKeyword(line) ==
    LET lower == ToLowercase(line)
    IN  \E kw \in ErrorKeywords : Contains(lower, kw)

\* lines of ffmpeg's stderr: a log line, a line that only resembles a keyword, and
\* one line per keyword, in mixed case or with surrounding blanks
LogLine == <<"f","p","s","=","3","0">>
NearMissLine == <<"e","r","r"," ","n","o","t","f","o","u","n","d">>
KeywordLines ==
    { <<"E","r","r","o","r"," ","x">>,
      <<" ","I","N","V","A","L","I","D"," ">>,
      <<"N","o"," ","s","u","c","h"," ","f">>,
      <<"P","e","r","m","i","s","s","i","o","n"," ","d","e","n","i","e","d">>,
      <<"x"," ","n","o","t"," ","f","o","u","n","d">> }
SecondLines == { <<"a",":"," ","e","r","r","o","r">>, NearMissLine }

\* a buffer of n lines: log lines, with line p and line q (when not 0) replaced
StderrBuffer(n, p, a, q, b) ==
    [i \in 1..n |-> IF i = q THEN b ELSE IF i = p THEN a ELSE LogLine]

\* ExitStatus::code().unwrap_or(-1) of a failed run
FailedExitCodes == {1, 0 - 1}

GenericMessage(exit_code) == [generic |-> TRUE, code |-> exit_code, text |-> <<>>]
LineMessage(line) == [generic |-> FALSE, code |-> 0, text |-> Trim(line)]

\* faulty variant: the scanned lines are searched oldest first
extract_error_message_OldestFirst(stderr, exit_code) ==
    LET n == Len(stderr)
        taken == IF n < ERROR_SCAN_LINES THEN n ELSE ERROR_SCAN_LINES
        lines == [k \in 1..taken |-> stderr[n + 1 - k]]
        hits == {k \in 1..taken : HasErrorKeyword(lines[k])}
    IN  IF hits = {} THEN GenericMessage(exit_code)
        ELSE LineMessage(lines[CHOOSE k \in hits : \A h \in hits : k >= h])

\* fn extract_error_message: the last 20 lines, newest first; the first of them
\* holding a keyword, trimmed, else the generic message with the exit code
extract_error_message(stderr, exit_code) ==
    LET n == Len(stderr)
        taken == IF n < ERROR_SCAN_LINES THEN n ELSE ERROR_SCAN_LINES
        lines == [k \in 1..taken |-> stderr[n + 1 - k]]
        hits == {k \in 1..taken : HasErrorKeyword(lines[k])}
    IN  IF hits = {} THEN GenericMessage(exit_code)
        ELSE LineMessage(lines[CHOOSE k \in hits : \A h \in hits : k <= h])

\* buffer lengths: short buffers, and those about as long as the scanned tail
StderrLengths == (0..3) \cup ((ERROR_SCAN_LINES - 1)..MaxStderrLines)

\* one call extract_error_message(&stderr_buffer, exit_code)
ExtractErrorMessage ==
    /\ calc.fn = "none"
    /\ calc' = [ fn |-> "extract_error_message",
                 in |-> calc.in,
                 out |-> extract_error_message(calc.in.stderr, calc.in.exit_code) ]
    /\ UNCHANGED <<builderVars, parserVars, runVars>>

\* the stderr buffers and exit codes extract_error_message is given
InitMessagesCalc ==
    \E n \in StderrLengths, exit_code \in FailedExitCodes :
      \E p \in 0..n, q \in 0..n, a \in KeywordLines, b \in SecondLines :
        calc = [ fn |-> "none",
                 in |-> [stderr |-> StderrBuffer(n, p, a, q, b), exit_code |-> exit_code],
                 out |-> <<>> ]

NextMessages == ExtractErrorMessage

(***************************************************************************)
(* engine/queue.rs : TaskQueue, behind the TASK_QUEUE mutex                *)
(* A child handle is the identity of the process it controls.              *)
(***************************************************************************)

Jobs == {"j1", "j2"}
\* ids a caller may pass to cancel_task; the id of a job that has not registered
\* a child yet is an id the registry has never seen
TaskIds == Jobs

\* HashMap::remove
MapRemove(m, key) == [k \in DOMAIN m \ {key} |-> m[k]]

\* faulty variant: the handle is dropped instead of stored
register_child_Dropped(run, task_id, child) == run

\* TaskQueue::register_child
register_child(run, task_id, child) == MapInsert(run, task_id, child)

\* faulty variant: the id is not marked in the cancelled set
cancel_task_NoMark(run, canc, task_id) ==
    IF task_id \in DOMAIN run
    THEN [ running |-> MapRemove(run, task_id), cancelled |-> canc,
           kill |-> Some(run[task_id]), res |-> "Ok" ]
    ELSE [ running |-> run, cancelled |-> canc, kill |-> None, res |-> "NotFound" ]

\* faulty variant: the id is marked before the lookup
cancel_task_MarkFirst(run, canc, task_id) ==
    IF task_id \in DOMAIN run
    THEN [ running |-> MapRemove(run, task_id), cancelled |-> canc \cup {task_id},
           kill |-> Some(run[task_id]), res |-> "Ok" ]
    ELSE [ running |-> run, cancelled |-> canc \cup {task_id},
           kill |-> None, res |-> "NotFound" ]

\* TaskQueue::cancel_task: the registry after the call, the handle killed, the result
cancel_task(run, canc, task_id) ==
    IF task_id \in DOMAIN run
    THEN [ running |-> MapRemove(run, task_id), cancelled |-> canc \cup {task_id},
           kill |-> Some(run[task_id]), res |-> "Ok" ]
    ELSE [ running |-> run, cancelled |-> canc, kill |-> None, res |-> "NotFound" ]

\* TaskQueue::is_cancelled
is_cancelled(canc, task_id) == task_id \in canc

\* faulty variant: the cancelled flag outlives the cleanup
cleanup_RunningOnly(run, canc, task_id) ==
    [ running |-> MapRemove(run, task_id), cancelled |-> canc ]

\* TaskQueue::cleanup
cleanup(run, canc, task_id) ==
    [ running |-> MapRemove(run, task_id), cancelled |-> canc \ {task_id} ]

(***************************************************************************)
(* engine/process.rs and commands/*.rs : one orchestrator call per job     *)
(***************************************************************************)

\* Bounds: stdout/stderr events one child sends; segments of a multi-segment trim.
MaxOutput == 1
NumSegments == 2

\* "single": convert_video, compress_video, process_audio, resize_video, create_gif,
\* process_subtitle, add_watermark and single-segment trim_video: probe, run_ffmpeg,
\* cleanup. The others are merge_videos, download_video, trim_multi_merge,
\* add_watermark with a text watermark and process_subtitle.
Kinds == {"single", "merge", "download", "trim_merge", "trim_separate", "watermark",
          "subtitle"}
\* Jobs meet only in the registry, which is keyed by task id: j1 runs any
\* orchestrator, j2 is a run_ffmpeg job running beside it.
KindsOf(j) == IF j = "j1" THEN Kinds ELSE {"single"}

NoCall == [op |-> "none", id |-> "", res |-> ""]
\* faulty variant: every event carries the id of the first job
Ev_SharedId(type, task_id) == [ev |-> type, task_id |-> "j1"]

Ev(type, task_id) == [ev |-> type, task_id |-> task_id]
Msg(type, code) == [t |-> type, code |-> code]
\* ExitStatus::code(): Some(0), Some(1), or None for a child ended by a signal
ExitCodes == {Some(0), Some(1), None}

\* faulty variant: the exit code is looked at before the cancelled flag
Outcome_ExitCodeFirst(flag, exit_code) ==
    IF exit_code = 0 THEN "Completed"
    ELSE IF flag THEN "Cancelled"
    ELSE "Failed"

\* the Terminated arm: the cancelled flag first, then the exit code
Outcome(flag, exit_code) ==
    IF flag THEN "Cancelled"
    ELSE IF exit_code = 0 THEN "Completed"
    ELSE "Failed"

\* every step of Spec records the cancel_task call it served, if any
Served(c) == call' = c /\ UNCHANGED <<builderVars, parserVars, calcVars>>

Push(j, type) == events' = [events EXCEPT ![j] = Append(@, Ev(type, j))]
Return(j, value) == /\ ret' = [ret EXCEPT ![j] = value]
                    /\ pc' = [pc EXCEPT ![j] = "done"]
Goto(j, label) == pc' = [pc EXCEPT ![j] = label]
Cleanup(j) ==
    LET q == cleanup(running, cancelled, j)
    IN  /\ running' = q.running
        /\ cancelled' = q.cancelled
        /\ cleanups' = [cleanups EXCEPT ![j] = @ + 1]

\* utils/path.rs temp_file_path(prefix, ext): a fresh path per call; a job asks
\* once per prefix
ConcatList == <<"concat", 0>>
TrimConcatFile == <<"concat_trim", 0>>
SegFile(i) == <<"trim_seg", i>>
\* utils/text_image.rs render_text_to_png: the rendered text watermark
TextImage == <<"text_image", 0>>

\* faulty variant: the concat list names the segment files in reverse order
ConcatContent_Reversed(temp_files) ==
    [k \in 1..Len(temp_files) |-> <<"file", temp_files[Len(temp_files) + 1 - k]>>]

\* trim_multi_merge's concat_content: one `file '<path>'` entry per temp file
ConcatContent(temp_files) ==
    [k \in 1..Len(temp_files) |-> <<"file", temp_files[k]>>]


\* convert_video and its like, up to the call of run_ffmpeg: the probe may fail
StartSingle(j) ==
    /\ pc[j] = "idle"
    /\ "single" \in KindsOf(j)
    /\ kind' = [kind EXCEPT ![j] = "single"]
    /\ \/ Goto(j, "run_ffmpeg") /\ UNCHANGED ret
       \/ Return(j, "Err")
    /\ Served(NoCall)
    /\ UNCHANGED <<running, cancelled, kills, proc, chan, events, local, task_result,
                   cleanups, temp, nonzero>>

\* merge_videos up to the call of run_ffmpeg: the concat list is written first
StartMerge(j) ==
    /\ pc[j] = "idle"
    /\ "merge" \in KindsOf(j)
    /\ kind' = [kind EXCEPT ![j] = "merge"]
    /\ \/ /\ temp' = [temp EXCEPT ![j] = {ConcatList}]
          /\ Goto(j, "run_ffmpeg")
          /\ UNCHANGED ret
       \/ /\ Return(j, "Err")
          /\ UNCHANGED temp
    /\ Served(NoCall)
    /\ UNCHANGED <<running, cancelled, kills, proc, chan, events, local, task_result,
                   cleanups, nonzero>>

\* add_watermark up to the call of run_ffmpeg: get_duration()?, then
\* prepare_watermark_params()? renders the text to a temporary PNG
StartWatermark(j) ==
    /\ pc[j] = "idle"
    /\ "watermark" \in KindsOf(j)
    /\ kind' = [kind EXCEPT ![j] = "watermark"]
    /\ \/ /\ temp' = [temp EXCEPT ![j] = {TextImage}]
          /\ Goto(j, "run_ffmpeg")
          /\ UNCHANGED ret
       \/ /\ Return(j, "Err")
          /\ UNCHANGED temp
    /\ Served(NoCall)
    /\ UNCHANGED <<running, cancelled, kills, proc, chan, events, local, task_result,
                   cleanups, nonzero>>

\* process_subtitle's inputs: params.mode, the number of subtitle streams ffprobe
\* reports for the input, params.subtitle_index
SubtitleModes == {"Embed", "Extract", "BurnIn"}
SubtitleCounts == {0, 1}
SubtitleIndexes == {None, Some(0), Some(1), Some(2)}
\* the follow-up probe of the output: it fails (None), or it counts the subtitle
\* streams
VerifyProbes == {None} \cup {Some(c) : c \in SubtitleCounts}

\* faulty variant: an index equal to the number of streams is let through
ExtractRejected_IndexAbove(subtitle_count, requested_index) ==
    subtitle_count = 0 \/ requested_index > subtitle_count

\* `if subtitle_count == 0 { return Err }`, `if requested_index >= subtitle_count
\* { return Err }`
ExtractRejected(subtitle_count, requested_index) ==
    subtitle_count = 0 \/ requested_index >= subtitle_count

\* faulty variant: the output is not verified
EmbedVerdict_Unverified(verify) == "Ok"

\* Embed mode after a run without error: run_ffprobe(output)?, then
\* `if sub_count == 0 { return Err }`
EmbedVerdict(verify) == IF verify = None \/ verify = Some(0) THEN "Err" ELSE "Ok"

\* process_subtitle up to the call of run_ffmpeg: the subtitle file is checked
\* (Embed, BurnIn), the input is probed, and in Extract mode the subtitle streams
\* are counted and the requested index validated
StartSubtitle(j) ==
    \E mode \in SubtitleModes, file_ok \in BOOLEAN, probe_ok \in BOOLEAN,
       subtitle_count \in SubtitleCounts, subtitle_index \in SubtitleIndexes :
        LET requested_index == UnwrapOr(subtitle_index, 0)
            probed == mode = "Extract" /\ probe_ok
            rejected ==
                \/ mode \in {"Embed", "BurnIn"} /\ ~file_ok
                \/ ~probe_ok
                \/ mode = "Extract" /\ ExtractRejected(subtitle_count, requested_index)
        IN  /\ pc[j] = "idle"
            /\ "subtitle" \in KindsOf(j)
            /\ kind' = [kind EXCEPT ![j] = "subtitle"]
            /\ local' = [local EXCEPT
                            ![j].mode = mode,
                            ![j].probe = IF probed
                                         THEN Some([subtitle_count |-> subtitle_count,
                                                    requested_index |-> requested_index])
                                         ELSE None]
            /\ IF rejected THEN Return(j, "Err") ELSE Goto(j, "run_ffmpeg") /\ UNCHANGED ret
            /\ Served(NoCall)
            /\ UNCHANGED <<running, cancelled, kills, proc, chan, events, task_result,
                           cleanups, temp, nonzero>>

\* download_video up to the spawn: Started, then get_sidecar_dir()?
StartDownload(j) ==
    /\ pc[j] = "idle"
    /\ "download" \in KindsOf(j)
    /\ kind' = [kind EXCEPT ![j] = "download"]
    /\ Push(j, "Started")
    /\ \/ Goto(j, "spawn") /\ UNCHANGED ret
       \/ Return(j, "Err")
    /\ Served(NoCall)
    /\ UNCHANGED <<running, cancelled, kills, proc, chan, local, task_result,
                   cleanups, temp, nonzero>>

\* trim_multi_merge up to its segment loop: Started
StartTrimMerge(j) ==
    /\ pc[j] = "idle"
    /\ "trim_merge" \in KindsOf(j)
    /\ kind' = [kind EXCEPT ![j] = "trim_merge"]
    /\ Push(j, "Started")
    /\ Goto(j, "segment")
    /\ Served(NoCall)
    /\ UNCHANGED <<running, cancelled, kills, proc, chan, local, task_result, ret,
                   cleanups, temp, nonzero>>

\* faulty variant: the run begins without a Started event
RunStarted_Silent(j) ==
    /\ pc[j] = "run_ffmpeg"
    /\ Goto(j, "spawn")
    /\ Served(NoCall)
    /\ UNCHANGED <<running, cancelled, kills, kind, proc, chan, events, local, task_result,
                   ret, cleanups, temp, nonzero>>

\* run_ffmpeg: on_progress.send(Started)
RunStarted(j) ==
    /\ pc[j] = "run_ffmpeg"
    /\ Push(j, "Started")
    /\ Goto(j, "spawn")
    /\ Served(NoCall)
    /\ UNCHANGED <<running, cancelled, kills, kind, proc, chan, local, task_result, ret,
                   cleanups, temp, nonzero>>

\* sidecar(..).args(..).spawn(): the child starts, or the spawn fails and
\* run_ffmpeg (download_video) returns Err
Spawn(j) ==
    /\ pc[j] = "spawn"
    /\ \/ /\ proc' = [proc EXCEPT ![j] = [st |-> "alive", outs |-> 0]]
          /\ Goto(j, "register")
          /\ UNCHANGED <<task_result, ret>>
       \/ /\ kind[j] # "download"
          /\ task_result' = [task_result EXCEPT ![j] = "Err"]
          /\ Goto(j, "returned")
          /\ UNCHANGED <<proc, ret>>
       \/ /\ kind[j] = "download"
          /\ Return(j, "Err")
          /\ UNCHANGED <<proc, task_result>>
    /\ Served(NoCall)
    /\ UNCHANGED <<running, cancelled, kills, kind, chan, events, local,
                   cleanups, temp, nonzero>>

\* TASK_QUEUE.lock().await.register_child(task_id, child)
Register(j) ==
    /\ pc[j] = "register"
    /\ running' = register_child(running, j, j)
    /\ Goto(j, "recv")
    /\ Served(NoCall)
    /\ UNCHANGED <<cancelled, kills, kind, proc, chan, events, local, task_result, ret,
                   cleanups, temp, nonzero>>

\* the child writes a line to stdout or stderr
ProcOutput(j) ==
    \E t \in {"Stdout", "Stderr"} :
        /\ proc[j].st = "alive"
        /\ proc[j].outs < MaxOutput
        /\ proc' = [proc EXCEPT ![j].outs = @ + 1]
        /\ chan' = [chan EXCEPT ![j] = Append(@, Msg(t, None))]
        /\ Served(NoCall)
        /\ UNCHANGED <<running, cancelled, kills, kind, pc, events, local, task_result, ret,
                       cleanups, temp, nonzero>>

\* the child exits by itself
ProcExit(j) ==
    \E code \in ExitCodes :
        /\ proc[j].st = "alive"
        /\ proc' = [proc EXCEPT ![j].st = "exited"]
        /\ chan' = [chan EXCEPT ![j] = Append(@, Msg("Terminated", code))]
        /\ nonzero' = [nonzero EXCEPT ![j] = @ \/ (IsSome(code) /\ Unwrap(code) # 0)]
        /\ Served(NoCall)
        /\ UNCHANGED <<running, cancelled, kills, kind, pc, events, local, task_result, ret,
                       cleanups, temp>>

\* the event stream ends with no Terminated event (the wait on the child failed)
StreamClose(j) ==
    /\ proc[j].st = "alive"
    /\ proc' = [proc EXCEPT ![j].st = "lost"]
    /\ chan' = [chan EXCEPT ![j] = Append(@, Msg("Closed", None))]
    /\ Served(NoCall)
    /\ UNCHANGED <<running, cancelled, kills, kind, pc, events, local, task_result, ret,
                   cleanups, temp, nonzero>>

\* faulty variant: a closed stream is taken for a finished run
StreamClosedResult_Completed == "Completed"

\* after the loop: `Err("ffmpeg 进程事件流意外关闭")`
StreamClosedResult == "Err"

\* one turn of `while let Some(event) = rx.recv().await`
Recv(j) ==
    /\ pc[j] = "recv"
    /\ chan[j] # <<>>
    /\ chan' = [chan EXCEPT ![j] = Tail(@)]
    /\ LET event == Head(chan[j])
       IN  \/ /\ event.t = "Stdout"
              \* parser.parse_line returns a snapshot or, throttled, nothing
              /\ \/ Push(j, "Progress")
                 \/ UNCHANGED events
              /\ UNCHANGED <<pc, local, task_result, ret>>
           \/ /\ event.t = "Stderr"
              \* run_ffmpeg buffers the line; download_video parses it for progress
              /\ \/ kind[j] = "download" /\ Push(j, "Progress")
                 \/ UNCHANGED events
              /\ UNCHANGED <<pc, local, task_result, ret>>
           \/ /\ event.t = "Terminated"
              /\ local' = [local EXCEPT ![j].is_cancelled = is_cancelled(cancelled, j),
                                        ![j].exit_code = UnwrapOr(event.code, 0 - 1)]
              /\ Goto(j, IF kind[j] = "download" THEN "dl_cleanup" ELSE "decide")
              /\ UNCHANGED <<events, task_result, ret>>
           \/ /\ event.t = "Closed"
              /\ kind[j] # "download"
              /\ task_result' = [task_result EXCEPT ![j] = StreamClosedResult]
              /\ Goto(j, "returned")
              /\ UNCHANGED <<events, local, ret>>
           \/ /\ event.t = "Closed"
              /\ kind[j] = "download"
              /\ Return(j, "Err")
              /\ UNCHANGED <<events, local, task_result>>
    /\ Served(NoCall)
    /\ UNCHANGED <<running, cancelled, kills, kind, proc, cleanups, temp, nonzero>>

\* run_ffmpeg's Terminated arm after the flag was read: push the event, return
Decide(j) ==
    /\ pc[j] = "decide"
    /\ LET outcome == Outcome(local[j].is_cancelled, local[j].exit_code)
       IN  /\ Push(j, outcome)
           /\ task_result' = [task_result EXCEPT ![j] = outcome]
    /\ Goto(j, "returned")
    /\ Served(NoCall)
    /\ UNCHANGED <<running, cancelled, kills, kind, proc, chan, local, ret,
                   cleanups, temp, nonzero>>

\* the orchestrator after `run_ffmpeg(..).await`: convert_video and its like apply
\* `?` before the cleanup, merge_videos after it; add_watermark removes its text
\* image after the `?`; process_subtitle in Embed mode probes the output file
Finish(j) ==
    /\ pc[j] = "returned"
    /\ \/ /\ kind[j] \in {"single", "watermark", "subtitle"}
          /\ task_result[j] = "Err"
          /\ Return(j, "Err")
          /\ UNCHANGED <<running, cancelled, cleanups, temp, local>>
       \/ /\ kind[j] = "single"
          /\ task_result[j] # "Err"
          /\ Cleanup(j)
          /\ Return(j, IF task_result[j] = "Failed" THEN "Err" ELSE "Ok")
          /\ UNCHANGED <<temp, local>>
       \/ /\ kind[j] = "watermark"
          /\ task_result[j] # "Err"
          /\ temp' = [temp EXCEPT ![j] = @ \ {TextImage}]
          /\ Cleanup(j)
          /\ Return(j, IF task_result[j] = "Failed" THEN "Err" ELSE "Ok")
          /\ UNCHANGED local
       \/ /\ kind[j] = "merge"
          /\ temp' = [temp EXCEPT ![j] = @ \ {ConcatList}]
          /\ Cleanup(j)
          /\ Return(j, IF task_result[j] \in {"Err", "Failed"} THEN "Err" ELSE "Ok")
          /\ UNCHANGED local
       \/ /\ kind[j] = "subtitle"
          /\ task_result[j] # "Err"
          /\ Cleanup(j)
          /\ IF task_result[j] = "Failed"
             THEN Return(j, "Err") /\ UNCHANGED local
             ELSE IF local[j].mode = "Embed"
             THEN \E verify \in VerifyProbes :
                     /\ local' = [local EXCEPT ![j].verify = Some(verify)]
                     /\ Return(j, EmbedVerdict(verify))
             ELSE Return(j, "Ok") /\ UNCHANGED local
          /\ UNCHANGED temp
    /\ Served(NoCall)
    /\ UNCHANGED <<kills, kind, proc, chan, events, task_result, nonzero>>

\* download_video's Terminated arm: cleanup under a second lock ...
DownloadCleanup(j) ==
    /\ pc[j] = "dl_cleanup"
    /\ Cleanup(j)
    /\ Goto(j, "dl_emit")
    /\ Served(NoCall)
    /\ UNCHANGED <<kills, kind, proc, chan, events, local, task_result, ret, temp, nonzero>>

\* ... then the event and the return
DownloadEmit(j) ==
    /\ pc[j] = "dl_emit"
    /\ LET outcome == Outcome(local[j].is_cancelled, local[j].exit_code)
       IN  /\ Push(j, outcome)
           /\ Return(j, IF outcome = "Failed" THEN "Err" ELSE "Ok")
    /\ Served(NoCall)
    /\ UNCHANGED <<running, cancelled, kills, kind, proc, chan, local, task_result,
                   cleanups, temp, nonzero>>


\* trim_multi_merge, one turn of the segment loop: temp_file_path()?, then
\* run_ffmpeg_quiet; on failure the files of the earlier segments are removed
TrimSegment(j) ==
    /\ pc[j] = "segment"
    /\ LET i == local[j].seg
           temp_path == SegFile(i)
           earlier == {local[j].temp_files[k] : k \in 1..Len(local[j].temp_files)}
       IN  \/ /\ Return(j, "Err")
              /\ UNCHANGED <<events, local, temp, nonzero>>
           \/ /\ temp' = [temp EXCEPT ![j] = @ \cup {temp_path}]
              /\ Push(j, "Progress")
              /\ local' = [local EXCEPT ![j].seg = i + 1,
                                        ![j].cuts = Append(@, i),
                                        ![j].temp_files = Append(@, temp_path)]
              /\ Goto(j, IF i + 1 = NumSegments THEN "concat_list" ELSE "segment")
              /\ UNCHANGED <<ret, nonzero>>
           \/ \E partial \in SUBSET {temp_path} :
                 /\ nonzero' = [nonzero EXCEPT ![j] = TRUE]
                 /\ temp' = [temp EXCEPT ![j] = (@ \ earlier) \cup partial]
                 /\ local' = [local EXCEPT ![j].cuts = Append(@, i)]
                 /\ Return(j, "Err")
                 /\ UNCHANGED events
    /\ Served(NoCall)
    /\ UNCHANGED <<running, cancelled, kills, kind, proc, chan, task_result, cleanups>>

\* trim_multi_merge: temp_file_path("concat_trim")?, std::fs::write(..)?
TrimConcatList(j) ==
    /\ pc[j] = "concat_list"
    /\ \/ /\ Return(j, "Err")
          /\ UNCHANGED <<temp, local>>
       \/ /\ temp' = [temp EXCEPT ![j] = @ \cup {TrimConcatFile}]
          /\ local' = [local EXCEPT ![j].list = ConcatContent(local[j].temp_files)]
          /\ Goto(j, "concat_run")
          /\ UNCHANGED ret
    /\ Served(NoCall)
    /\ UNCHANGED <<running, cancelled, kills, kind, proc, chan, events, task_result,
                   cleanups, nonzero>>

\* faulty variant: the concatenation registers a child under the job id
TrimConcatRun_Registered(j) ==
    /\ pc[j] = "concat_run"
    /\ running' = register_child(running, j, j)
    /\ local' = [local EXCEPT ![j].concats = @ + 1]
    /\ temp' = [temp EXCEPT ![j] = (@ \ {TrimConcatFile})
                     \ {local[j].temp_files[k] : k \in 1..Len(local[j].temp_files)}]
    /\ \/ /\ Push(j, "Completed")
          /\ Goto(j, "trim_cleanup")
          /\ UNCHANGED <<ret, nonzero>>
       \/ /\ nonzero' = [nonzero EXCEPT ![j] = TRUE]
          /\ Return(j, "Err")
          /\ UNCHANGED events
    /\ Served(NoCall)
    /\ UNCHANGED <<cancelled, kills, kind, proc, chan, task_result, cleanups>>

\* trim_multi_merge: run_ffmpeg_quiet(concat), remove the temporary files, then
\* `concat_result?` and the Completed event
TrimConcatRun(j) ==
    /\ pc[j] = "concat_run"
    /\ local' = [local EXCEPT ![j].concats = @ + 1]
    /\ temp' = [temp EXCEPT ![j] = (@ \ {TrimConcatFile})
                     \ {local[j].temp_files[k] : k \in 1..Len(local[j].temp_files)}]
    /\ \/ /\ Push(j, "Completed")
          /\ Goto(j, "trim_cleanup")
          /\ UNCHANGED <<ret, nonzero>>
       \/ /\ nonzero' = [nonzero EXCEPT ![j] = TRUE]
          /\ Return(j, "Err")
          /\ UNCHANGED events
    /\ Served(NoCall)
    /\ UNCHANGED <<running, cancelled, kills, kind, proc, chan, task_result, cleanups>>

\* trim_multi_merge, trim_multi_separate: queue.cleanup(task_id); Ok(task_id)
TrimCleanup(j) ==
    /\ pc[j] = "trim_cleanup"
    /\ Cleanup(j)
    /\ Return(j, "Ok")
    /\ Served(NoCall)
    /\ UNCHANGED <<kills, kind, proc, chan, events, local, task_result, temp, nonzero>>

\* trim_multi_separate up to its segment loop: Started
StartTrimSeparate(j) ==
    /\ pc[j] = "idle"
    /\ "trim_separate" \in KindsOf(j)
    /\ kind' = [kind EXCEPT ![j] = "trim_separate"]
    /\ Push(j, "Started")
    /\ Goto(j, "sep_segment")
    /\ Served(NoCall)
    /\ UNCHANGED <<running, cancelled, kills, proc, chan, local, task_result, ret,
                   cleanups, temp, nonzero>>

\* trim_multi_separate, one turn of the segment loop: run_ffmpeg_quiet(..)?, then
\* the Progress event
TrimSeparateSegment(j) ==
    /\ pc[j] = "sep_segment"
    /\ LET i == local[j].seg
       IN  \/ /\ local' = [local EXCEPT ![j].seg = i + 1, ![j].cuts = Append(@, i)]
              /\ Push(j, "Progress")
              /\ Goto(j, IF i + 1 = NumSegments THEN "sep_completed" ELSE "sep_segment")
              /\ UNCHANGED <<ret, nonzero>>
           \/ /\ local' = [local EXCEPT ![j].cuts = Append(@, i)]
              /\ nonzero' = [nonzero EXCEPT ![j] = TRUE]
              /\ Return(j, "Err")
              /\ UNCHANGED events
    /\ Served(NoCall)
    /\ UNCHANGED <<running, cancelled, kills, kind, proc, chan, task_result, cleanups, temp>>

\* trim_multi_separate after the loop: the Completed event; queue.cleanup and
\* Ok(task_id) follow as in trim_multi_merge
TrimSeparateCompleted(j) ==
    /\ pc[j] = "sep_completed"
    /\ Push(j, "Completed")
    /\ Goto(j, "trim_cleanup")
    /\ Served(NoCall)
    /\ UNCHANGED <<running, cancelled, kills, kind, proc, chan, local, task_result, ret,
                   cleanups, temp, nonzero>>

\* commands/task.rs cancel_task: lock the queue, TaskQueue::cancel_task(task_id);
\* child.kill() ends a child that is still alive
CancelTask(task_id) ==
    LET r == cancel_task(running, cancelled, task_id)
        target == IF IsSome(r.kill) THEN {Unwrap(r.kill)} ELSE {}
        ended == {p \in target : proc[p].st = "alive"}
    IN  /\ running' = r.running
        /\ cancelled' = r.cancelled
        /\ kills' = [p \in Jobs |-> IF p \in target THEN kills[p] + 1 ELSE kills[p]]
        /\ proc' = [p \in Jobs |-> IF p \in ended THEN [proc[p] EXCEPT !.st = "exited"]
                                   ELSE proc[p]]
        /\ chan' = [p \in Jobs |-> IF p \in ended
                                   THEN Append(chan[p], Msg("Terminated", None))
                                   ELSE chan[p]]
        /\ Served([op |-> "cancel_task", id |-> task_id, res |-> r.res])
        /\ UNCHANGED <<kind, pc, events, local, task_result, ret, cleanups, temp, nonzero>>

(***************************************************************************)
(* engine/queue.rs : the four TaskQueue operations called in any order,    *)
(* each under the TASK_QUEUE lock; pc[id] is where the owner of the id is: *)
(* "idle" before register_child, "registered" after it, "cleaned" once     *)
(* cleanup has been called after the registration.                         *)
(***************************************************************************)

QueueUntouched ==
    UNCHANGED <<builderVars, parserVars, calcVars, kind, proc, chan, events, local,
                task_result, ret, cleanups, temp, nonzero>>

\* register_child(task_id, child), once per id
QueueRegister(task_id) ==
    /\ pc[task_id] = "idle"
    /\ running' = register_child(running, task_id, task_id)
    /\ pc' = [pc EXCEPT ![task_id] = "registered"]
    /\ call' = [op |-> "register_child", id |-> task_id, res |-> ""]
    /\ UNCHANGED <<cancelled, kills>>
    /\ QueueUntouched

\* cancel_task(task_id)
QueueCancel(task_id) ==
    LET r == cancel_task(running, cancelled, task_id)
    IN  /\ running' = r.running
        /\ cancelled' = r.cancelled
        /\ kills' = [p \in Jobs |-> IF r.kill = Some(p) THEN kills[p] + 1 ELSE kills[p]]
        /\ call' = [op |-> "cancel_task", id |-> task_id, res |-> r.res]
        /\ UNCHANGED pc
        /\ QueueUntouched

\* is_cancelled(task_id), through &self
QueueIsCancelled(task_id) ==
    /\ call' = [op |-> "is_cancelled", id |-> task_id,
                res |-> IF is_cancelled(cancelled, task_id) THEN "true" ELSE "false"]
    /\ UNCHANGED <<running, cancelled, kills, pc>>
    /\ QueueUntouched

\* cleanup(task_id)
QueueCleanup(task_id) ==
    LET q == cleanup(running, cancelled, task_id)
    IN  /\ running' = q.running
        /\ cancelled' = q.cancelled
        /\ pc' = [pc EXCEPT ![task_id] = IF @ = "registered" THEN "cleaned" ELSE @]
        /\ call' = [op |-> "cleanup", id |-> task_id, res |-> ""]
        /\ UNCHANGED kills
        /\ QueueUntouched

NextQueue ==
    \E task_id \in TaskIds :
        \/ QueueRegister(task_id)
        \/ QueueCancel(task_id)
        \/ QueueIsCancelled(task_id)
        \/ QueueCleanup(task_id)

InitRunVars ==
    /\ running = EmptyMap
    /\ cancelled = {}
    /\ kills = [j \in Jobs |-> 0]
    /\ call = NoCall
    /\ kind = [j \in Jobs |-> "none"]
    /\ pc = [j \in Jobs |-> "idle"]
    /\ proc = [j \in Jobs |-> [st |-> "none", outs |-> 0]]
    /\ chan = [j \in Jobs |-> <<>>]
    /\ events = [j \in Jobs |-> <<>>]
    /\ local = [j \in Jobs |-> [is_cancelled |-> FALSE, exit_code |-> 0, seg |-> 0,
                                 temp_files |-> <<>>, cuts |-> <<>>, list |-> <<>>,
                                 concats |-> 0, mode |-> "", probe |-> None,
                                 verify |-> None]]
    /\ task_result = [j \in Jobs |-> "none"]
    /\ ret = [j \in Jobs |-> "none"]
    /\ cleanups = [j \in Jobs |-> 0]
    /\ temp = [j \in Jobs |-> {}]
    /\ nonzero = [j \in Jobs |-> FALSE]

Next ==
    \/ \E j \in Jobs :
          \/ StartSingle(j)
          \/ StartMerge(j)
          \/ StartWatermark(j)
          \/ StartSubtitle(j)
          \/ StartDownload(j)
          \/ StartTrimMerge(j)
          \/ RunStarted(j)
          \/ Spawn(j)
          \/ Register(j)
          \/ ProcOutput(j)
          \/ ProcExit(j)
          \/ StreamClose(j)
          \/ Recv(j)
          \/ Decide(j)
          \/ Finish(j)
          \/ DownloadCleanup(j)
          \/ DownloadEmit(j)
          \/ TrimSegment(j)
          \/ TrimConcatList(j)
          \/ TrimConcatRun(j)
          \/ TrimCleanup(j)
          \/ StartTrimSeparate(j)
          \/ TrimSeparateSegment(j)
          \/ TrimSeparateCompleted(j)
    \/ \E task_id \in TaskIds : CancelTask(task_id)

Init == InitBuilderVars /\ IdleParserVars /\ InitRunVars /\ InitCalcVars

Spec == Init /\ [][Next]_vars

InitBuilder == InitBuilderVars /\ IdleParserVars /\ InitRunVars /\ InitCalcVars

SpecBuilder == InitBuilder /\ [][NextBuilder]_vars

InitParser == InitParserVars /\ InitBuilderVars /\ InitRunVars /\ InitCalcVars

SpecParser == InitParser /\ [][NextParser]_vars

InitMessages == InitBuilderVars /\ IdleParserVars /\ InitRunVars /\ InitMessagesCalc

SpecMessages == InitMessages /\ [][NextMessages]_vars

InitQueue == InitBuilderVars /\ IdleParserVars /\ InitRunVars /\ InitCalcVars

SpecQueue == InitQueue /\ [][NextQueue]_vars

InitCommands == InitBuilderVars /\ IdleParserVars /\ InitRunVars /\ InitCalcVars

SpecCommands == InitCommands /\ [][NextCommands]_vars

(***************************************************************************)
(* Properties                                                              *)
(***************************************************************************)

\* ---- what the builder calls made so far should serialize to ----
CallTokens(c, zone) ==
    CASE zone = "pre" /\ c.m \in {"pre_arg", "pre_args_pair"} -> c.a
      [] zone = "input" /\ c.m = "input" -> <<"-i">> \o c.a
      [] zone = "post" /\ c.m \in {"arg", "args_pair"} -> c.a
      [] zone = "vf" /\ c.m = "video_filter" -> c.a
      [] zone = "af" /\ c.m = "audio_filter" -> c.a
      [] OTHER -> <<>>

RECURSIVE ZoneTokens(_, _)
ZoneTokens(cs, zone) ==
    IF cs = <<>> THEN <<>> ELSE CallTokens(Head(cs), zone) \o ZoneTokens(Tail(cs), zone)

\* the argument of the last call of method m, dflt when there is none
RECURSIVE LastArg(_, _, _)
LastArg(cs, m, dflt) ==
    IF cs = <<>> THEN dflt
    ELSE IF cs[Len(cs)].m = m THEN cs[Len(cs)].a[1]
    ELSE LastArg(SubSeq(cs, 1, Len(cs) - 1), m, dflt)

HasCall(m) == \E i \in 1..Len(calls) : calls[i].m = m

ExpectedFilterZone ==
    IF HasCall("complex_filter")
    THEN <<"-filter_complex", LastArg(calls, "complex_filter", "")>>
    ELSE (IF HasCall("video_filter") THEN <<"-vf", Join(ZoneTokens(calls, "vf"))>> ELSE <<>>)
         \o (IF HasCall("audio_filter") THEN <<"-af", Join(ZoneTokens(calls, "af"))>> ELSE <<>>)

ExpectedBeforeOutput ==
    <<"-y", "-hide_banner">> \o ZoneTokens(calls, "pre")
        \o ZoneTokens(calls, "input")
        \o ZoneTokens(calls, "post")
        \o ExpectedFilterZone

ExpectedOutputPath == LastArg(calls, "output", "")

\* C2, as claimed: build() returns the pre-input flags in insertion order after
\* -y -hide_banner, then "-i <path>" per input in insertion order, then the
\* post-input args in insertion order, then the filter zone (only -filter_complex
\* when a complex filter is set), then the output path as the last token -
\* whatever builder calls were made, in whatever order.
C2_OutputPathAlwaysLast ==
    IsSome(built) => Unwrap(built) = ExpectedBeforeOutput \o <<ExpectedOutputPath>>

\* C2, amended: the same zone order, and the output path is the last token when it
\* is not empty; when output() was not called, or was given the empty string, no
\* token is emitted for it.
C2_ZonesInFixedOrder ==
    IsSome(built) =>
        Unwrap(built) = ExpectedBeforeOutput
            \o (IF ExpectedOutputPath = "" THEN <<>> ELSE <<ExpectedOutputPath>>)

\* C2 witness: output() was called first, an input, a -vf filter and a complex
\* filter after it, and build() put the complex filter alone before the path.
C2_Witness ==
    /\ IsSome(built)
    /\ Len(calls) = 4
    /\ calls[1].m = "output"
    /\ cmd.output # ""
    /\ cmd.inputs # <<>>
    /\ cmd.video_filters # <<>>
    /\ IsSome(cmd.complex_filter)
    /\ Unwrap(built)[Len(Unwrap(built))] = cmd.output

\* ---- parser ----
LastPercent == Unwrap(parsed.ret).percent
Hundred == [n |-> 100, d |-> 1]

\* C8, as claimed: a snapshot returned on a `progress=continue` sentinel comes at
\* least 200 ms after the previous snapshot the parser returned.
C8_ContinueSnapshotsSpaced ==
    (IsSome(parsed.ret) /\ SentinelOf(parsed.line) = Some(V_continue) /\ Len(emits) = 2)
        => emits[1] - emits[2] >= 200

\* C9: parse_line on a `progress=end` line returns Some(snapshot) in every parser
\* state, however recent the previous snapshot and whatever was accumulated.
C9_EndAlwaysReturns ==
    (parsed.n > 0 /\ SentinelOf(parsed.line) = Some(V_end)) => IsSome(parsed.ret)

\* C9 witness: an end line returned a snapshot less than 200 ms after the previous
\* one, with a frame count accumulated in its burst.
C9_Witness ==
    /\ parsed.line = KV(K_progress, V_end)
    /\ IsSome(parsed.ret)
    /\ Unwrap(parsed.ret).frame = 150
    /\ Len(emits) = 2
    /\ emits[1] - emits[2] < 200

\* C10, as claimed: every returned ProgressUpdate has 0 <= percent <= 100.
C10_PercentInRange ==
    IsSome(parsed.ret) => RatLeq(RatZero, LastPercent) /\ RatLeq(LastPercent, Hundred)

\* ---- the reference derivation of a snapshot from the keys of one burst ----
RefValue(values, key) == IF key \in DOMAIN values THEN values[key] ELSE <<>>
RefOutTimeUs(values) == UnwrapOr(ParseI64(RefValue(values, K_out_time_us)), 0)
RefSpeed(values) ==
    LET v == RefValue(values, K_speed)
        n == IF v # <<>> /\ v[Len(v)] = "x" THEN SubSeq(v, 1, Len(v) - 1) ELSE v
    IN  UnwrapOr(ParseF64(n), RatZero)
RefCurrentTime(values) == Rat(RefOutTimeUs(values), 1000000)
RefPercent(values, total_us) ==
    RatMin(Hundred, RatScale(Rat(RefOutTimeUs(values), total_us), 100))
RefEta(values, total_us) ==
    IF RatLess(RatZero, RefSpeed(values))
    THEN RatMax(RatZero, RatDiv(Rat(total_us - RefOutTimeUs(values), 1000000),
                                RefSpeed(values)))
    ELSE RatZero

\* C11: a snapshot returned on a burst boundary equals the reference derivation
\* from the keys of that burst: current_time = out_time_us / 10^6, percent =
\* min(100, out_time_us / total_duration_us * 100) (for a positive total), speed =
\* the number before the trailing 'x', eta = max(0, (total - current_time) / speed)
\* when speed > 0 and 0 otherwise; an absent or unparsable key counts as 0.
C11_SnapshotMatchesReference ==
    [][(parsed'.n = parsed.n + 1 /\ IsSome(parsed'.ret)) =>
          LET snap == Unwrap(parsed'.ret)
              burst == parser.current_values
              total == parser.total_duration_us
          IN  /\ snap.current_time = RefCurrentTime(burst)
              /\ total > 0 => snap.percent = RefPercent(burst, total)
              /\ snap.speed = RefSpeed(burst)
              /\ snap.eta = RefEta(burst, total)
              /\ K_out_time_us \notin DOMAIN burst =>
                    snap.percent = RatZero /\ snap.current_time = RatZero]_vars

\* C11 witness: out_time_us=5000000, speed=2.0x, progress=continue against a 20 s
\* total returned percent 25, current_time 5 and eta 7.5.
C11_Witness ==
    /\ parsed.n = 3
    /\ parsed.line = KV(K_progress, V_continue)
    /\ parser.total_duration_us = 20000000
    /\ IsSome(parsed.ret)
    /\ Unwrap(parsed.ret).percent = [n |-> 25, d |-> 1]
    /\ Unwrap(parsed.ret).current_time = [n |-> 5, d |-> 1]
    /\ Unwrap(parsed.ret).speed = [n |-> 2, d |-> 1]
    /\ Unwrap(parsed.ret).eta = [n |-> 15, d |-> 2]

\* ---- registry, runner, orchestrators ----
LastEvent(j) == events[j][Len(events[j])]
HasEvent(j, type) == \E i \in 1..Len(events[j]) : events[j][i].ev = type

\* C1: handling Terminated, run_ffmpeg reads the registry's cancelled flag of the
\* job; with the flag set it pushes Cancelled and returns status Cancelled whatever
\* the exit code; otherwise exit code 0 gives Completed, and any other or a missing
\* exit code gives Failed.
C1_TerminatedOutcome ==
    [][\A j \in Jobs :
          /\ (pc[j] = "recv" /\ pc'[j] = "decide") =>
                /\ local'[j].is_cancelled = (j \in cancelled)
                /\ local'[j].exit_code =
                      (IF Head(chan[j]).code = None THEN 0 - 1
                       ELSE Unwrap(Head(chan[j]).code))
          /\ (pc[j] = "decide" /\ pc'[j] = "returned") =>
                LET want == IF local[j].is_cancelled THEN "Cancelled"
                            ELSE IF local[j].exit_code = 0 THEN "Completed"
                            ELSE "Failed"
                IN  /\ events'[j] = Append(events[j], Ev(want, j))
                    /\ task_result'[j] = want]_vars

\* C1 witness: run_ffmpeg returned Cancelled for a child that exited with code 0.
C1_Witness ==
    \E j \in Jobs :
        /\ pc[j] = "returned"
        /\ local[j].is_cancelled
        /\ local[j].exit_code = 0
        /\ task_result[j] = "Cancelled"
        /\ LastEvent(j).ev = "Cancelled"

IsCancelCall(c) == c.op = "cancel_task"

\* C3: cancel_task(id) for an id in the running map removes its handle, adds id to
\* the cancelled set, sends one kill signal to that job's process and returns Ok;
\* the handles, flags and processes of all other ids are untouched.
C3_CancelRunning ==
    [][(IsCancelCall(call') /\ call'.id \in DOMAIN running) =>
          /\ call'.res = "Ok"
          /\ DOMAIN running' = DOMAIN running \ {call'.id}
          /\ \A o \in DOMAIN running' : running'[o] = running[o]
          /\ cancelled' = cancelled \cup {call'.id}
          /\ kills'[call'.id] = kills[call'.id] + 1
          /\ \A o \in Jobs \ {call'.id} :
                kills'[o] = kills[o] /\ proc'[o] = proc[o] /\ chan'[o] = chan[o]]_vars

\* C3 witness: j1 was cancelled with Ok and one kill while j2 stayed registered.
C3_Witness ==
    /\ call = [op |-> "cancel_task", id |-> "j1", res |-> "Ok"]
    /\ kills["j1"] = 1
    /\ "j1" \in cancelled
    /\ "j1" \notin DOMAIN running
    /\ "j2" \in DOMAIN running
    /\ kills["j2"] = 0

\* C4, as claimed: once a job's Completed or Failed event was pushed, a later
\* cancel_task of its id returns the not-found error and changes nothing in the
\* registry.
C4_CancelAfterTerminalEvent ==
    [][(IsCancelCall(call')
          /\ (HasEvent(call'.id, "Completed") \/ HasEvent(call'.id, "Failed"))) =>
             /\ call'.res = "NotFound"
             /\ running' = running
             /\ cancelled' = cancelled]_vars

\* C5: cancel_task(id) for an id not in the running map returns the not-found
\* error, sends no kill signal and leaves the running map and the cancelled set
\* as they were.
C5_CancelNotRunning ==
    [][(IsCancelCall(call') /\ call'.id \notin DOMAIN running) =>
          /\ call'.res = "NotFound"
          /\ running' = running
          /\ cancelled' = cancelled
          /\ kills' = kills
          /\ proc' = proc
          /\ chan' = chan]_vars

\* C5 witness: a second cancel of an already cancelled job was refused while
\* another job was registered, and the first cancel's flag is still set.
C5_Witness ==
    /\ call = [op |-> "cancel_task", id |-> "j1", res |-> "NotFound"]
    /\ "j1" \in cancelled
    /\ kills["j1"] = 1
    /\ "j2" \in DOMAIN running

\* C6, as claimed, for the calls that spawned a child: once the orchestrator has
\* returned, the registry holds neither a handle nor a cancelled flag for the job
\* and cleanup was called exactly once for it.
C6_RegistryCleanOnReturn ==
    \A j \in Jobs :
        (pc[j] = "done" /\ proc[j].st # "none") =>
            /\ j \notin DOMAIN running
            /\ j \notin cancelled
            /\ cleanups[j] = 1

\* C7, as claimed: when a process launched for a job exited with a nonzero code
\* and the job was not cancelled, a Failed event was pushed and the orchestrator
\* returned an error.
C7_NonzeroExitReported ==
    \A j \in Jobs :
        (pc[j] = "done" /\ nonzero[j] /\ kills[j] = 0) =>
            HasEvent(j, "Failed") /\ ret[j] = "Err"

\* C12, as claimed: on every exit path of an orchestrator that creates temporary
\* files (trim_multi_merge, merge_videos, add_watermark with a text watermark),
\* every temporary file it created has been removed by the time it returns.
C12_NoTempFilesOnReturn ==
    \A j \in Jobs : pc[j] = "done" => temp[j] = {}

\* C13: a trim_multi_merge of N >= 2 segments that succeeds ran exactly N segment
\* cuts in segment order into N distinct intermediate files, wrote one concat
\* list of exactly N `file '<path>'` entries in segment order, ran exactly one
\* concat invocation, and left none of the N + 1 temporary files behind.
C13_TrimMergeSuccess ==
    \A j \in Jobs :
        (kind[j] = "trim_merge" /\ pc[j] = "done" /\ ret[j] = "Ok") =>
            /\ local[j].cuts = [k \in 1..NumSegments |-> k - 1]
            /\ Len(local[j].temp_files) = NumSegments
            /\ Cardinality({local[j].temp_files[k] : k \in 1..NumSegments}) = NumSegments
            /\ local[j].list = [k \in 1..NumSegments |-> <<"file", SegFile(k - 1)>>]
            /\ local[j].concats = 1
            /\ temp[j] = {}

\* C13 witness: a multi-segment merge trim returned Ok after its Completed event.
C13_Witness ==
    \E j \in Jobs :
        /\ kind[j] = "trim_merge"
        /\ pc[j] = "done"
        /\ ret[j] = "Ok"
        /\ NumSegments >= 2
        /\ Len(local[j].list) = NumSegments
        /\ local[j].concats = 1
        /\ LastEvent(j).ev = "Completed"

\* ---- command construction ----
RECURSIVE RefSum(_, _, _)
RefSum(d, from, to) == IF from > to THEN RatZero ELSE RatAdd(d[from], RefSum(d, from + 1, to))

IsMerge == calc.fn = "build_merge_command"

\* C14: for n >= 2 clips with durations d_0..d_{n-1} and transition duration T,
\* build_merge_command emits exactly n - 1 crossfade stages and the offset of
\* stage i (0-based) is max(0, (d_0 + ... + d_i) - (i + 1) * T).
C14_CrossfadeOffsets ==
    (IsMerge /\ calc.in.n >= 2) =>
        /\ Len(calc.out) = calc.in.n - 1
        /\ \A i \in 0..(calc.in.n - 2) :
              LET raw == RatSub(RefSum(calc.in.durations, 1, i + 1),
                                RatMul(RatOf(i + 1), calc.in.trans_dur))
              IN  calc.out[i + 1].offset = (IF RatLess(raw, RatZero) THEN RatZero ELSE raw)

\* C14 witness: three clips whose first offset is clamped at 0 and whose second
\* is positive.
C14_Witness ==
    /\ IsMerge
    /\ calc.in.n = 3
    /\ calc.in.trans_dur = RatOf(7)
    /\ Len(calc.out) = 2
    /\ calc.out[1].offset = RatZero
    /\ RatLess(RatZero, calc.out[2].offset)

IsScenario3 ==
    /\ IsMerge
    /\ calc.in.n = 3
    /\ calc.in.durations = <<RatOf(10), RatOf(8), RatOf(6)>>
    /\ calc.in.trans_dur = RatOf(1)

\* C15, as claimed: merging 3 clips of durations [10, 8, 6] with a 1 s transition
\* yields the transition offsets [9.0, 15.0].
C15_OffsetsNineFifteen ==
    IsScenario3 => <<calc.out[1].offset, calc.out[2].offset>> = <<RatOf(9), RatOf(15)>>

\* C15, amended: merging 3 clips of durations [10, 8, 6] with a 1 s transition
\* yields the transition offsets [9.0, 16.0] (16 = (10 + 8) - 2 * 1).
C15_OffsetsNineSixteen ==
    IsScenario3 =>
        /\ Len(calc.out) = 2
        /\ <<calc.out[1].offset, calc.out[2].offset>> = <<RatOf(9), RatOf(16)>>

\* C15 witness: the command for [10, 8, 6] with a 1 s transition was built and
\* has two crossfade stages.
C15_Witness == IsScenario3 /\ Len(calc.out) = 2

IsCompress(mode) == calc.fn = "build_compress_command" /\ calc.in.mode = mode

\* max(100, target_MB * 8192 / duration - 128) in whole kbps, for duration > 0
RefVideoKbps(target_mb, duration) ==
    LET x == RatSub(RatDiv(RatMul(target_mb, RatOf(8192)), duration), RatOf(128))
    IN  IF RatLess(x, RatOf(100)) THEN 100 ELSE x.n \div x.d

\* C16, as claimed: in by-size compression video_kbps = max(100, target_MB * 8192 /
\* duration - 128) for every duration >= 0; a zero duration causes no failure and
\* never a negative or sub-100 bitrate, and on the software path -maxrate is
\* 1.5 * video_kbps and -bufsize is 2 * video_kbps, both computed without
\* arithmetic overflow.
C16_BySizeBitrate ==
    IsCompress("BySize") =>
        /\ ~calc.out.panicked
        /\ IsSome(calc.out.video_bitrate)
        /\ LET video_kbps == Unwrap(calc.out.video_bitrate)
               target_mb == UnwrapOr(calc.in.target_size_mb, RatOf(50))
           IN  /\ video_kbps.kind = "int"
               /\ video_kbps.v >= 100
               /\ RatLess(RatZero, calc.in.input_duration) =>
                     video_kbps.v = RefVideoKbps(target_mb, calc.in.input_duration)
               /\ ~calc.in.hardware_accel =>
                     /\ IsSome(calc.out.maxrate) /\ IsSome(calc.out.bufsize)
                     /\ Unwrap(calc.out.maxrate) = U64((3 * video_kbps.v) \div 2)
                     /\ Unwrap(calc.out.bufsize) = U64(2 * video_kbps.v)

\* C17: quality_level_to_crf, quality_level_to_vt_q and ratio_to_crf are monotonic
\* (a higher level gives a lower or equal CRF and a higher or equal hardware q; a
\* higher ratio gives a lower or equal CRF) and stay inside the documented range
\* for every input, out-of-range ones included (CRF in 16..34, hardware q in
\* 30..85); ratio 0.5 gives CRF 26 whatever the source bitrate.
C17_QualityMappings ==
    /\ (IsCompress("ByQuality") /\ ~calc.in.hardware_accel) =>
          /\ Unwrap(calc.out.crf) \in 16..34
          /\ \A l2 \in 0..MaxLevel :
                l2 >= calc.in.level => quality_level_to_crf(l2) <= Unwrap(calc.out.crf)
    /\ (IsCompress("ByQuality") /\ calc.in.hardware_accel) =>
          /\ Unwrap(calc.out.q) \in 30..85
          /\ \A l2 \in 0..MaxLevel :
                l2 >= calc.in.level => quality_level_to_vt_q(l2) >= Unwrap(calc.out.q)
    /\ (IsCompress("ByRatio") /\ ~calc.in.hardware_accel) =>
          /\ Unwrap(calc.out.crf) \in 16..34
          /\ \A r2 \in CompressRatios \ {None} :
                RatLeq(calc.in.ratio, Unwrap(r2)) =>
                    ratio_to_crf(Unwrap(r2)) <= Unwrap(calc.out.crf)
          /\ calc.in.ratio = Rat(1, 2) => Unwrap(calc.out.crf) = 26

\* C17 witness: by-ratio compression with ratio 0.5 of a source of bitrate 0 chose
\* CRF 26.
C17_Witness ==
    /\ IsCompress("ByRatio")
    /\ ~calc.in.hardware_accel
    /\ calc.in.compress_ratio = Some(Rat(1, 2))
    /\ calc.in.input_bitrate = 0
    /\ calc.out.crf = Some(26)

\* C18: in Extract mode, when the probed input has no subtitle stream, or the
\* requested subtitle_index is >= the number of subtitle streams, process_subtitle
\* returns an error before any job is started: no process is spawned, nothing is
\* registered and no event is pushed.
C18_ExtractRejectedBeforeStart ==
    \A j \in Jobs :
        (kind[j] = "subtitle" /\ local[j].mode = "Extract" /\ IsSome(local[j].probe)
            /\ (\/ Unwrap(local[j].probe).subtitle_count = 0
                \/ Unwrap(local[j].probe).requested_index
                       >= Unwrap(local[j].probe).subtitle_count)) =>
            /\ pc[j] = "done"
            /\ ret[j] = "Err"
            /\ proc[j].st = "none"
            /\ j \notin DOMAIN running
            /\ kills[j] = 0
            /\ events[j] = <<>>

\* C18 witness: an extraction of stream 1 from an input with one subtitle stream
\* was refused while another job was running.
C18_Witness ==
    /\ kind["j1"] = "subtitle"
    /\ local["j1"].mode = "Extract"
    /\ local["j1"].probe = Some([subtitle_count |-> 1, requested_index |-> 1])
    /\ ret["j1"] = "Err"
    /\ events["j1"] = <<>>
    /\ "j2" \in DOMAIN running

\* C19: in Embed mode, when the ffmpeg process exited with code 0 but the
\* follow-up probe of the output finds no subtitle stream, process_subtitle
\* returns an error, never success.
C19_EmbedVerified ==
    \A j \in Jobs :
        (kind[j] = "subtitle" /\ local[j].mode = "Embed" /\ pc[j] = "done"
            /\ local[j].verify = Some(Some(0))) =>
            ret[j] = "Err"

\* C19 witness: an Embed run exited with code 0 and was reported Completed, the
\* probe of its output counted no subtitle stream, and the call returned Err.
C19_Witness ==
    \E j \in Jobs :
        /\ kind[j] = "subtitle"
        /\ local[j].mode = "Embed"
        /\ pc[j] = "done"
        /\ local[j].exit_code = 0
        /\ task_result[j] = "Completed"
        /\ local[j].verify = Some(Some(0))
        /\ ret[j] = "Err"

\* what the jobs hold apart from the registry, for one job
JobState(j) ==
    <<kind[j], pc[j], proc[j], chan[j], events[j], local[j], task_result[j], ret[j],
      cleanups[j], temp[j], nonzero[j], kills[j]>>

ProgressCount(j) == Cardinality({i \in 1..Len(events[j]) : events[j][i].ev = "Progress"})

\* C20: with two jobs running under any interleaving, a cancel_task(a) call,
\* whatever it returns, leaves every job b # a as it was: b's process, channel,
\* events, position, locals and results are unchanged, b gets no kill signal, b's
\* handle stays in (or out of) the running map and b's cancelled flag is unchanged;
\* b is flagged, reads the flag or ends as Cancelled only after a kill sent to b
\* itself; and every event pushed for a job carries that job's id, the Progress
\* events parsed in a run loop being no more than the output lines that job's own
\* process produced (the multi-segment trims compute their Progress events per
\* segment).
C20_JobsIsolated ==
    /\ [][IsCancelCall(call') =>
            \A b \in Jobs \ {call'.id} :
                /\ JobState(b)' = JobState(b)
                /\ (b \in DOMAIN running') = (b \in DOMAIN running)
                /\ (b \in DOMAIN running => running'[b] = running[b])
                /\ (b \in cancelled') = (b \in cancelled)]_vars
    /\ [](\A b \in Jobs :
            /\ (b \in cancelled => kills[b] >= 1)
            /\ (local[b].is_cancelled => kills[b] >= 1)
            /\ (task_result[b] = "Cancelled" => kills[b] >= 1)
            /\ (HasEvent(b, "Cancelled") => kills[b] >= 1)
            /\ \A i \in 1..Len(events[b]) : events[b][i].task_id = b
            /\ (kind[b] \notin {"trim_merge", "trim_separate"} =>
                    ProgressCount(b) <= proc[b].outs))

\* C20 witness: both jobs ran side by side; j1 was cancelled and ended as
\* Cancelled, j2 was never killed, reported progress and completed under its own id.
C20_Witness ==
    /\ HasEvent("j1", "Cancelled")
    /\ kills["j1"] = 1
    /\ kills["j2"] = 0
    /\ "j2" \notin cancelled
    /\ events["j2"] = <<Ev("Started", "j2"), Ev("Progress", "j2"), Ev("Completed", "j2")>>
    /\ events["j2"][2].task_id = "j2"
    /\ ret["j2"] = "Ok"
    /\ pc["j1"] = "done"

\* the CommandEvents of job j's child that its receive loop has taken from rx
EventsConsumed(j) ==
    (proc[j].outs + (IF proc[j].st \in {"exited", "lost"} THEN 1 ELSE 0)) - Len(chan[j])

\* C21: in run_ffmpeg and download_video the child handle is registered after the
\* spawn and before the first event of that process is consumed (no event is
\* consumed while the job is still at the spawn or the registration), so a
\* cancel_task(job id) served after the first consumed event, while the process is
\* still alive, finds the handle and returns Ok.
C21_RegisteredBeforeEvents ==
    /\ [](\A j \in Jobs :
            /\ (pc[j] \in {"idle", "run_ffmpeg", "spawn", "register"} =>
                    EventsConsumed(j) = 0)
            /\ (proc[j].st = "alive" /\ EventsConsumed(j) >= 1 => j \in DOMAIN running))
    /\ [][(IsCancelCall(call') /\ proc[call'.id].st = "alive"
                /\ EventsConsumed(call'.id) >= 1) =>
            /\ call'.res = "Ok"
            /\ kills'[call'.id] = kills[call'.id] + 1]_vars

\* C21 witness: j1's loop had consumed an output event of its live process when
\* cancel_task(j1) was served; it found the handle.
C21_Witness ==
    /\ call = [op |-> "cancel_task", id |-> "j1", res |-> "Ok"]
    /\ proc["j1"].outs = 1
    /\ chan["j1"] = <<Msg("Terminated", None)>>
    /\ kills["j1"] = 1
    /\ pc["j1"] = "recv"

TerminalEvents == {"Completed", "Failed", "Cancelled"}

ConcatRan(j) == kind[j] = "trim_merge" /\ local[j].concats >= 1

StreamEnded(j) == proc[j].st = "lost" /\ chan[j] = <<>> /\ pc[j] \in {"returned", "done"}

\* C23: when the child's event stream closes without ever delivering Terminated,
\* run_ffmpeg returns Err: its result is never a TaskResult (Completed, Failed or
\* Cancelled), no Completed event (and no other terminal event) is pushed for the
\* job, and the orchestrator that called it returns Err.
C23_ClosedStreamIsError ==
    \A j \in Jobs :
        (StreamEnded(j) /\ kind[j] # "download") =>
            /\ task_result[j] = "Err"
            /\ \A i \in 1..Len(events[j]) : events[j][i].ev \notin TerminalEvents
            /\ (pc[j] = "done" => ret[j] = "Err")

\* C23 witness: j1's stream closed after one output line; run_ffmpeg returned Err
\* with only Started and Progress pushed.
C23_Witness ==
    /\ kind["j1"] = "single"
    /\ StreamEnded("j1")
    /\ task_result["j1"] = "Err"
    /\ events["j1"] = <<Ev("Started", "j1"), Ev("Progress", "j1")>>
    /\ ret["j1"] = "Err"

\* C24: after every sentinel line, whether its snapshot was returned or
\* throttled away, the accumulator is empty; at every moment the accumulator
\* holds exactly the key=value pairs of the lines received since the previous
\* sentinel, and the snapshot a sentinel returns is the one built from that
\* accumulator, so the values of a throttled burst appear in no later snapshot.
C24_AccumulatorClearedPerBurst ==
    /\ []((parsed.n > 0 /\ IsSome(SentinelOf(parsed.line))) =>
              parser.current_values = EmptyMap)
    /\ [](parser.current_values = parsed.burst)
    /\ [][(parsed'.n = parsed.n + 1 /\ IsSome(parsed'.ret)) =>
              parsed'.ret = build_progress_update(
                  [parser EXCEPT !.current_values = parsed.burst])]_vars

\* C24 witness: a burst holding out_time_us was throttled away, and the snapshot
\* returned on the next sentinel, which followed at once, reports time 0.
C24_Witness ==
    /\ K_out_time_us \in parsed.dropped
    /\ parsed.n = 4
    /\ IsSome(SentinelOf(parsed.line))
    /\ IsSome(parsed.ret)
    /\ Unwrap(parsed.ret).current_time = RatZero
    /\ parser.current_values = EmptyMap

IsExtract == calc.fn = "extract_error_message"
\* the positions of the buffer's lines that hold a keyword, from position `from`
KeywordPositions(stderr, from) ==
    {i \in 1..Len(stderr) : i >= from /\ HasErrorKeyword(stderr[i])}
LastOf(S) == CHOOSE i \in S : \A h \in S : i >= h

\* C25, as claimed: the message is the last line of the buffered stderr that
\* holds a keyword, and the generic `exited with code N` message is used only
\* when no line of the buffer holds one.
C25_LastKeywordLineOfBuffer ==
    IsExtract =>
        LET stderr == calc.in.stderr
            hits == KeywordPositions(stderr, 1)
        IN  /\ (calc.out.generic <=> hits = {})
            /\ (hits # {} => calc.out.text = Trim(stderr[LastOf(hits)]))

\* C25, amended: only the last 20 lines of the buffer are scanned: the message
\* is the last of those lines that holds a keyword (case-insensitively), trimmed,
\* and the generic message with the exit code is used whenever none of the last
\* 20 lines holds one, even if an earlier line does.
C25_LastKeywordLineOfTail ==
    IsExtract =>
        LET stderr == calc.in.stderr
            hits == KeywordPositions(stderr, Len(stderr) - ERROR_SCAN_LINES + 1)
        IN  /\ (calc.out.generic <=> hits = {})
            /\ (calc.out.generic => calc.out.code = calc.in.exit_code)
            /\ (hits # {} => calc.out.text = Trim(stderr[LastOf(hits)]))

\* C25 witness: of 21 lines only the oldest holds a keyword, and the message is
\* the generic one.
C25_Witness ==
    /\ IsExtract
    /\ Len(calc.in.stderr) = ERROR_SCAN_LINES + 1
    /\ KeywordPositions(calc.in.stderr, 1) = {1}
    /\ calc.out = GenericMessage(1)

\* Started comes first and only first, a terminal event comes last and only last
WellFormedEvents(seq) ==
    \A i \in 1..Len(seq) :
        /\ (seq[i].ev = "Started" <=> i = 1)
        /\ (seq[i].ev \in TerminalEvents => i = Len(seq))
        /\ seq[i].ev \in {"Started", "Progress"} \cup TerminalEvents

\* C26: for each job, the events pushed to its sink are one Started first, then
\* zero or more Progress events, then at most one terminal event (Completed,
\* Failed or Cancelled): no Progress precedes Started and nothing follows the
\* terminal event. This holds for the run_ffmpeg jobs, download_video and both
\* multi-segment trims.
C26_EventOrder ==
    \A j \in Jobs :
        /\ WellFormedEvents(events[j])
        /\ \A i \in 1..Len(events[j]) : events[j][i].task_id = j

\* C26 witness: a multi-segment separate trim pushed Started, one Progress per
\* segment and Completed, while a run_ffmpeg job pushed Started, Progress, Failed.
C26_Witness ==
    /\ kind["j1"] = "trim_separate"
    /\ Len(events["j1"]) = NumSegments + 2
    /\ LastEvent("j1").ev = "Completed"
    /\ pc["j1"] = "done"
    /\ events["j2"] = <<Ev("Started", "j2"), Ev("Progress", "j2"), Ev("Failed", "j2")>>

\* cancel_task(j) has returned Ok (each Ok sends one kill to j's child)
CancelAcknowledged(j) == kills[j] >= 1

\* C27, as claimed: a job whose cancel request was answered with Ok is never
\* reported with a Completed or Failed event, under every interleaving of the
\* request with the process's exit and the handling of Terminated.
C27_AcknowledgedCancelIsCancelled ==
    \A j \in Jobs :
        CancelAcknowledged(j) =>
            /\ ~HasEvent(j, "Completed")
            /\ ~HasEvent(j, "Failed")

\* job j is visibly running: Started was pushed, no terminal event yet, and its
\* process, or a stage of a multi-stage job, is still to run or running
VisiblyRunning(j) ==
    /\ HasEvent(j, "Started")
    /\ \A i \in 1..Len(events[j]) : events[j][i].ev \notin TerminalEvents
    /\ \/ pc[j] \in {"spawn", "register"} /\ proc[j].st \in {"none", "alive"}
       \/ pc[j] = "recv" /\ proc[j].st = "alive"
       \/ pc[j] \in {"segment", "concat_list", "concat_run", "sep_segment"}

\* C28, as claimed: from the moment a job's Started event has been pushed until
\* its process (or the last process of a multi-stage job) has terminated,
\* cancel_task(job id) finds the job in the registry and returns Ok, for
\* single-run jobs and for multi-segment trim jobs.
C28_CancellableWhileRunning ==
    [][(IsCancelCall(call') /\ VisiblyRunning(call'.id)) => call'.res = "Ok"]_vars

\* C29, as claimed: once an orchestrator has returned, the events of its job
\* agree with the return value: if it returned Err no Completed event was pushed
\* for the job, and if a Completed event was pushed it returned Ok.
C29_EventsAgreeWithReturn ==
    \A j \in Jobs :
        pc[j] = "done" =>
            /\ (ret[j] = "Err" => ~HasEvent(j, "Completed"))
            /\ (HasEvent(j, "Completed") => ret[j] = "Ok")

\* C30: after any interleaving of register_child, cancel_task, is_cancelled and
\* cleanup in which each id is registered at most once, no id is in both the
\* running map and the cancelled set, every id in the cancelled set was
\* registered earlier and has not been cleaned up since, and is_cancelled reports
\* membership in the cancelled set and changes neither collection.
C30_RegistryInvariant ==
    /\ [](DOMAIN running \cap cancelled = {})
    /\ [](\A id \in cancelled : pc[id] = "registered")
    /\ [][call'.op = "is_cancelled" =>
            /\ running' = running
            /\ cancelled' = cancelled
            /\ (call'.res = "true" <=> call'.id \in cancelled)]_vars

\* C30 witness: j1 was registered and cancelled and is flagged, j2 was registered,
\* cancelled and cleaned up and is no longer flagged, and is_cancelled(j1) has
\* just answered true.
C30_Witness ==
    /\ call = [op |-> "is_cancelled", id |-> "j1", res |-> "true"]
    /\ cancelled = {"j1"}
    /\ running = EmptyMap
    /\ pc = [j1 |-> "registered", j2 |-> "cleaned"]
    /\ kills = [j1 |-> 1, j2 |-> 1]

====
